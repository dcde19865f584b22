-------------------------- MODULE LearningTaskProofs --------------------------
(***************************************************************************)
(* Proofs about LearningTask and TaskNotifications, for every finite group *)
(* of users, every number of requests and of notifiers, every limit and    *)
(* every scenario that the assumptions admit.  All of them are about       *)
(* NotifiedSpec, the requests and the notifiers side by side.              *)
(*                                                                         *)
(* The second part is about PagedReads and ReconnectReplay: the lists of   *)
(* tasks, submissions, posts and messages, read page by page while rows    *)
(* move, for any finite table, page size and number of changes.            *)
(***************************************************************************)
EXTENDS TaskNotifications, ReconnectReplay, FiniteSetTheorems, SequenceTheorems, TLAPS

USE LearningTaskAssumption, TaskNotificationsAssumption

(* A call holds the group's row from requireRole to the end, and the row   *)
(* of a task that exists, as it read it, from FOR UPDATE to the end.       *)
ReadsTask(c) == pc[c] \in {"authorise", "decide"} /\ asks[c].action # "create"

HoldsItsLocks(c) ==
  /\ pc[c] = "decide" => c \in groupLock
  /\ pc[c] = "lock" => asks[c].action # "create"
  /\ ReadsTask(c) => c \in taskLock /\ seen[c] = task /\ task # NoRow
  /\ pc[c] = "new" => c \notin taskLock

LocksHeld == \A c \in Calls : HoldsItsLocks(c)

(* A call that has not ended was not answered.                             *)
AnsweredAtTheEnd == \A c \in Calls : pc[c] # "done" => told[c] = NotTold

(* A task that is there was there to start with, when nobody creates it,   *)
(* or the event of its creation is recorded.                               *)
CreationsAgree ==
  \A c, d \in Calls :
    asks[c].action = "create" /\ asks[d].action = "create" => asks[c] = asks[d]

CreatedByRequest ==
  \A c \in Calls : asks[c].action = "create" /\ task # NoRow => Saved(c) # {}

TaskInv ==
  /\ TypeOK
  /\ LocksHeld
  /\ AnsweredAtTheEnd
  /\ CreationsAgree
  /\ CreatedByRequest
  /\ ClosedIsReviewed

requestVars == <<role, task, work, events, overdue, locks, asks, pc, seen, told>>

-----------------------------------------------------------------------------
Targeted == Users \cup {"group"}
MessageRow == [key : (Nat \ {0}) \X Targeted, to : SUBSET Targeted]

(* The variables of the notifiers have their types; one that is not idle   *)
(* has a row in hand.                                                      *)
NotifiersTypeOK ==
  /\ running \subseteq Notifiers
  /\ at \in [Notifiers ->
       {"idle", "claim", "check", "lookup", "address", "store", "settle"}]
  /\ \A w \in Notifiers :
       /\ DOMAIN batch[w] \subseteq DOMAIN notices
       /\ batch[w] \in [DOMAIN batch[w] -> Nat]
  /\ DOMAIN batch = Notifiers
  /\ recipients \in [Notifiers -> SUBSET Targeted]
  /\ outcome \in [Notifiers -> {"none", "done", "skipped", "failed"}]
  /\ messages \in Seq(MessageRow)
  /\ disruptions \in Nat

(* Who was told, and what a notifier is about to record, is so.            *)
HasLeft(n) == notices[n].to # "group" /\ role[notices[n].to] = "none"

OutcomeIsTrue ==
  \A w \in Notifiers, n \in DOMAIN notices :
    at[w] = "settle" /\ Current(w, n) =>
      /\ outcome[w] \in {"done", "skipped", "failed"}
      /\ outcome[w] = "done" => Sent(n)
      /\ outcome[w] = "skipped" => HasLeft(n)

MessagesAreUnique ==
  \A m, k \in DOMAIN messages : messages[m].key = messages[k].key => m = k

SettledIsTrue ==
  \A n \in DOMAIN notices :
    /\ notices[n].status = "done" => Sent(n)
    /\ notices[n].status = "skipped" => HasLeft(n)
    /\ notices[n].status = "dead" => notices[n].attempts >= MaxAttempts

NotifierInv ==
  /\ NotifiersTypeOK
  /\ OutcomeIsTrue
  /\ MessagesAreUnique
  /\ SettledIsTrue

IInv == TaskInv /\ NotifierInv

-----------------------------------------------------------------------------
(* Listing a finite set gives its elements (SetToSeq of SequencesExt).     *)
LEMMA SetToSeqType ==
  ASSUME NEW S, IsFiniteSet(S)
  PROVE  Cardinality(S) \in Nat /\ SetToSeq(S) \in [1..Cardinality(S) -> S]
<1>1. Cardinality(S) \in Nat /\ ExistsBijection(1..Cardinality(S), S)
  BY FS_CardinalityType
<1>2. PICK f \in Bijection(1..Cardinality(S), S) : TRUE
  BY <1>1 DEF ExistsBijection
<1>3. f \in [1..Cardinality(S) -> S] /\ IsInjective(f)
  BY <1>2 DEF Bijection, Injection
<1>4. QED
  BY <1>1, <1>3 DEF SetToSeq

(* The targets of every operation are finitely many users, or the group.   *)
Targets == {T \in SUBSET (Users \cup {"group"}) : IsFiniteSet(T)}

LEMMA TargetsOfOperations ==
  /\ {} \in Targets /\ {"group"} \in Targets
  /\ \A u \in Users : {u} \in Targets
  /\ \A S \in SUBSET Users : S \in Targets
BY FS_EmptySet, FS_Singleton, FS_Subset DEF Targets

Extends(f, g) == DOMAIN f \subseteq DOMAIN g /\ \A n \in DOMAIN f : g[n] = f[n]

(* saveEvent records the request last, keeps every earlier event and       *)
(* notice as it is, and adds notices of this event that are pending.       *)
Records(c, result) ==
  /\ events' \in Seq(EventRow)
  /\ Len(events') = Len(events) + 1
  /\ events' = Append(events, [request |-> asks[c], result |-> result])
  /\ Extends(events, events')
  /\ Last(events').request = asks[c] /\ Last(events').result = result
  /\ notices' \in Seq(NoticeRow)
  /\ Extends(notices, notices')
  /\ \A n \in DOMAIN notices' : notices'[n].event \in DOMAIN events'
  /\ \A n \in DOMAIN notices' \ DOMAIN notices : notices'[n].status = "pending"

LEMMA NoticesAppended ==
  ASSUME notices \in Seq(NoticeRow), NEW ACTION added, added \in Seq(NoticeRow),
         notices' = notices \o added,
         \A n \in 1..Len(added) : added[n].status = "pending" /\ added[n].event \in DOMAIN events'
  PROVE  /\ notices' \in Seq(NoticeRow) /\ Extends(notices, notices')
         /\ \A n \in DOMAIN notices' \ DOMAIN notices :
              notices'[n].status = "pending" /\ notices'[n].event \in DOMAIN events'
<1>1. /\ notices' \in Seq(NoticeRow) /\ Len(notices') = Len(notices) + Len(added)
      /\ \A n \in 1..Len(notices') :
           notices'[n] = IF n <= Len(notices) THEN notices[n] ELSE added[n - Len(notices)]
  OBVIOUS
<1>2. /\ DOMAIN notices = 1..Len(notices) /\ DOMAIN notices' = 1..Len(notices')
      /\ Len(notices) \in Nat /\ Len(added) \in Nat
  BY <1>1
<1>3. Extends(notices, notices')
  BY <1>1, <1>2 DEF Extends
<1>4. ASSUME NEW n \in DOMAIN notices' \ DOMAIN notices
      PROVE  notices'[n].status = "pending" /\ notices'[n].event \in DOMAIN events'
  <2>1. n - Len(notices) \in 1..Len(added) /\ notices'[n] = added[n - Len(notices)]
    BY <1>1, <1>2, <1>4
  <2>2. QED
    BY <2>1
<1>5. QED
  BY <1>1, <1>3, <1>4

LEMMA SaveEventRecords ==
  ASSUME TypeOK, NEW c \in Calls, NEW result \in Row, NEW targets \in Targets,
         SaveEvent(c, result, targets)
  PROVE  Records(c, result)
<1> DEFINE added == [n \in 1..Cardinality(targets) |->
             [event |-> Len(events'), to |-> SetToSeq(targets)[n],
              status |-> "pending", attempts |-> 0, due |-> TRUE]]
<1>1. /\ events \in Seq(EventRow) /\ notices \in Seq(NoticeRow)
      /\ \A n \in DOMAIN notices : notices[n].event \in DOMAIN events
      /\ [request |-> asks[c], result |-> result] \in EventRow
  BY DEF TypeOK, EventRow
<1>2. events' = Append(events, [request |-> asks[c], result |-> result])
  BY DEF SaveEvent
<1>3. /\ events' \in Seq(EventRow) /\ Len(events') = Len(events) + 1
      /\ \A n \in 1..Len(events) : events'[n] = events[n]
      /\ events'[Len(events')] = [request |-> asks[c], result |-> result]
  BY <1>1, <1>2
<1>4. /\ DOMAIN events = 1..Len(events) /\ DOMAIN events' = 1..Len(events')
      /\ Len(events) \in Nat
  BY <1>1, <1>3
<1>5. Extends(events, events')
  BY <1>3, <1>4 DEF Extends
<1>6. Cardinality(targets) \in Nat /\ SetToSeq(targets) \in [1..Cardinality(targets) -> targets]
  BY SetToSeqType DEF Targets
<1>7. /\ added \in Seq(NoticeRow)
      /\ \A n \in 1..Len(added) : added[n].status = "pending" /\ added[n].event \in DOMAIN events'
  <2>1. \A n \in 1..Cardinality(targets) : added[n] \in NoticeRow
    BY <1>3, <1>4, <1>6 DEF NoticeRow, Targets
  <2>2. added \in [1..Cardinality(targets) -> NoticeRow]
    BY <2>1
  <2>3. \A n \in 1..Cardinality(targets) :
          added[n].status = "pending" /\ added[n].event \in DOMAIN events'
    BY <1>3, <1>4
  <2> HIDE DEF added
  <2>4. added \in Seq(NoticeRow) /\ Len(added) = Cardinality(targets)
    BY <1>6, <2>2
  <2>5. QED
    BY <2>3, <2>4
<1>8. notices' = notices \o added
  BY DEF SaveEvent
<1> HIDE DEF added
<1>9. /\ notices' \in Seq(NoticeRow) /\ Extends(notices, notices')
      /\ \A n \in DOMAIN notices' \ DOMAIN notices :
           notices'[n].status = "pending" /\ notices'[n].event \in DOMAIN events'
  BY <1>1, <1>7, <1>8, NoticesAppended
<1>10. \A n \in DOMAIN notices' : notices'[n].event \in DOMAIN events'
  BY <1>1, <1>5, <1>9 DEF Extends
<1>11. QED
  BY <1>2, <1>3, <1>5, <1>9, <1>10 DEF Records, Last

(* The transactions that carry a request out.                              *)
Operation(c) ==
  Create(c) \/ UpdateDraft(c) \/ Publish(c) \/ Close(c) \/ Submit(c) \/ Review(c)

LEMMA OperationRecords ==
  ASSUME TypeOK, NEW c \in Calls, Operation(c)
  PROVE  \E result \in Row :
           Records(c, result) /\ \E reply \in {result, Failed} : Answer(c, reply)
<1>1. /\ task \in Row /\ seen[c] \in Row /\ asks[c] \in Request
      /\ \A u \in Users : work[u] \in Row
  BY DEF TypeOK
<1>2. \A row \in Row, s \in {"draft", "published", "closed", "submitted", "approved", "returned"} :
        Bump(row, s) \in Row
  BY DEF Bump, Row
<1>3. NoRow \in Row
  BY DEF NoRow, Row
<1>4. SUFFICES \E result \in Row, targets \in Targets : SaveEvent(c, result, targets)
  BY SaveEventRecords DEF SaveEvent
<1>5. CASE Create(c)
  BY <1>2, <1>3, <1>5, TargetsOfOperations DEF Create
<1>6. CASE UpdateDraft(c)
  BY <1>1, <1>2, <1>6, TargetsOfOperations DEF UpdateDraft
<1>7. CASE Publish(c)
  BY <1>1, <1>2, <1>7, TargetsOfOperations DEF Publish
<1>8. CASE Close(c)
  BY <1>1, <1>2, <1>8, TargetsOfOperations DEF Close
<1>9. CASE Submit(c)
  <2>1. Bump(work[asks[c].actor], "submitted") \in Row
    BY <1>1, <1>2 DEF Request
  <2>2. {u \in Users : role[u] \in Managers} \in Targets
    BY TargetsOfOperations
  <2>3. QED
    BY <1>9, <2>1, <2>2 DEF Submit
<1>10. CASE Review(c)
  <2>1. asks[c].of \in Users /\ \A s \in {"approved", "returned"} : Bump(work[asks[c].of], s) \in Row
    BY <1>1, <1>2 DEF Request
  <2>2. QED
    BY <1>10, <2>1, TargetsOfOperations DEF Review, ReviewAs
<1>11. QED
  BY <1>5, <1>6, <1>7, <1>8, <1>9, <1>10 DEF Operation

-----------------------------------------------------------------------------
(* The invariant of the requests holds to start with.                      *)
LEMMA InitTaskInv == NotifiedInit => TaskInv
<1> SUFFICES ASSUME NEW s \in Scenarios, StartsAs(s) PROVE TaskInv
  BY DEF NotifiedInit
<1>1. TypeOK
  <2>1. NoRow \in Row /\ NotTold \in Row
    BY DEF NoRow, NotTold, Row
  <2>2. events \in Seq(EventRow) /\ notices \in Seq(NoticeRow)
    BY DEF StartsAs
  <2>3. DOMAIN notices = {}
    BY DEF StartsAs
  <2>4. QED
    BY <2>1, <2>2, <2>3 DEF StartsAs, TypeOK
<1>2. LocksHeld
  BY DEF StartsAs, LocksHeld, HoldsItsLocks, ReadsTask
<1>3. AnsweredAtTheEnd
  BY DEF StartsAs, AnsweredAtTheEnd
<1>4. CreationsAgree /\ CreatedByRequest
  BY DEF StartsAs, CreationsAgree, CreatedByRequest
<1>5. ClosedIsReviewed
  BY DEF StartsAs, ClosedIsReviewed
<1>6. QED
  BY <1>1, <1>2, <1>3, <1>4, <1>5 DEF TaskInv

(* Whatever the call is answered, its locks go and nobody else's.          *)
LEMMA AnswerEnds ==
  ASSUME TypeOK, NEW c \in Calls, NEW reply \in Row, Answer(c, reply)
  PROVE  /\ pc' \in [Calls -> {"new", "lock", "authorise", "decide", "done"}]
         /\ seen' \in [Calls -> Row] /\ told' \in [Calls -> Row]
         /\ taskLock' \subseteq Calls /\ \A d, e \in taskLock' : d = e
         /\ groupLock' \subseteq Calls /\ \A d, e \in groupLock' : d = e
BY DEF TypeOK, Answer, Goto, NoRow, Row

LEMMA EventsHaveResults ==
  ASSUME TypeOK, NEW n \in DOMAIN events
  PROVE  events[n].request \in Request /\ events[n].result \in Row
<1>1. events \in Seq(EventRow)
  BY DEF TypeOK
<1>2. events[n] \in EventRow
  BY <1>1
<1>3. QED
  BY <1>2 DEF EventRow

(* The types are kept by a step of the requests.                           *)
LEMMA StepTypeOK == TypeOK /\ Next => TypeOK'
<1> SUFFICES ASSUME TypeOK, Next PROVE TypeOK'
  OBVIOUS
<1>1. Failed \in Row
  BY DEF Failed, Row
<1>2. ASSUME NEW c \in Calls, Begin(c) PROVE TypeOK'
  <2>1. CASE Answer(c, Failed)
    BY <1>1, <1>2, <2>1, AnswerEnds DEF Begin, TypeOK, tables
  <2>2. CASE ~Answer(c, Failed)
    BY <1>2, <2>2 DEF Begin, Goto, TypeOK, tables, locks
  <2>3. QED
    BY <2>1, <2>2
<1>3. ASSUME NEW c \in Calls, LockTask(c) PROVE TypeOK'
  <2>1. CASE Answer(c, Failed)
    BY <1>1, <1>3, <2>1, AnswerEnds DEF LockTask, TypeOK, tables
  <2>2. CASE taskLock' = {c} /\ task # NoRow
    <3>1. /\ seen' = [seen EXCEPT ![c] = task] /\ pc' = [pc EXCEPT ![c] = "authorise"]
          /\ UNCHANGED <<role, task, work, events, notices, asks, overdue, groupLock, told>>
      BY <1>3, <2>2 DEF LockTask, Goto, tables
    <3>2. QED
      BY <2>2, <3>1 DEF TypeOK
  <2>3. QED
    BY <1>3, <2>1, <2>2 DEF LockTask
<1>4. ASSUME NEW c \in Calls, Authorise(c) PROVE TypeOK'
  <2>1. CASE Answer(c, Failed)
    BY <1>1, <1>4, <2>1, AnswerEnds DEF Authorise, TypeOK, tables
  <2>2. CASE groupLock' = {c} /\ role[asks[c].actor] # "none"
    BY <1>4, <2>2 DEF Authorise, Goto, TypeOK, tables
  <2>3. QED
    BY <1>4, <2>1, <2>2 DEF Authorise
<1>5. ASSUME NEW c \in Calls, Repeat(c) PROVE TypeOK'
  <2>1. PICK reply \in Row : Answer(c, reply)
    BY <1>1, <1>5, EventsHaveResults DEF Repeat, Saved
  <2>2. QED
    BY <1>5, <2>1, AnswerEnds DEF Repeat, TypeOK, tables
<1>6. ASSUME NEW c \in Calls, Refuse(c) PROVE TypeOK'
  BY <1>1, <1>6, AnswerEnds DEF Refuse, TypeOK, tables
<1>7. ASSUME NEW c \in Calls, Abort(c) PROVE TypeOK'
  BY <1>1, <1>7, AnswerEnds DEF Abort, TypeOK, tables
<1>8. ASSUME NEW c \in Calls, Operation(c) PROVE TypeOK'
  <2>1. PICK result \in Row : Records(c, result) /\ \E reply \in {result, Failed} : Answer(c, reply)
    BY <1>8, OperationRecords
  <2>2. PICK reply \in Row : Answer(c, reply)
    BY <1>1, <2>1
  <2>3. task' \in Row /\ overdue' \in BOOLEAN /\ work' \in [Users -> Row]
        /\ UNCHANGED <<role, asks>>
    <3>1. /\ task \in Row /\ seen[c] \in Row /\ asks[c] \in Request
          /\ work \in [Users -> Row] /\ NoRow \in Row /\ overdue \in BOOLEAN
      BY DEF TypeOK, NoRow, Row
    <3>2. \A row \in Row, st \in {"draft", "published", "closed", "submitted", "approved", "returned"} :
            Bump(row, st) \in Row
      BY DEF Bump, Row
    <3> USE <3>1, <3>2 DEF SaveEvent
    <3>3. CASE Create(c) \/ UpdateDraft(c) \/ Publish(c) \/ Close(c)
      BY <3>3 DEF Create, UpdateDraft, Publish, Close
    <3>4. CASE Submit(c)
      BY <3>4 DEF Submit, Request
    <3>5. CASE Review(c)
      <4>1. asks[c].of \in Users /\ \A st \in {"approved", "returned"} : Bump(work[asks[c].of], st) \in Row
        BY DEF Request
      <4>2. PICK how \in {"approve", "return"}, st \in {"approved", "returned"} : ReviewAs(c, how, st)
        BY <3>5 DEF Review
      <4>3. QED
        BY <4>1, <4>2 DEF ReviewAs
    <3>6. QED
      BY <1>8, <3>3, <3>4, <3>5 DEF Operation
  <2>4. QED
    BY <2>1, <2>2, <2>3, AnswerEnds DEF TypeOK, Records
<1>9. CASE Deadline
  BY <1>9 DEF Deadline, TypeOK, tables, locks
<1>10. ASSUME NEW u \in Users, Leave(u) PROVE TypeOK'
  BY <1>10 DEF Leave, TypeOK, tables, locks, Roles
<1>11. QED
  BY <1>2, <1>3, <1>4, <1>5, <1>6, <1>7, <1>8, <1>9, <1>10 DEF Next, Progress, Operation

-----------------------------------------------------------------------------
(* An operation is permitted, and it is the last step of its call.         *)
LEMMA OperationEnds ==
  ASSUME TypeOK, NEW c \in Calls, Operation(c)
  PROVE  /\ pc[c] = "decide" /\ Saved(c) = {} /\ UNCHANGED <<role, asks>>
         /\ \E reply \in Row : Answer(c, reply)
<1>1. PICK result \in Row : \E reply \in {result, Failed} : Answer(c, reply)
  BY OperationRecords
<1>2. Failed \in Row
  BY DEF Failed, Row
<1>3. pc[c] = "decide" /\ Saved(c) = {} /\ UNCHANGED <<role, asks>>
  BY DEF Operation, Create, UpdateDraft, Publish, Close, Submit, Review, ReviewAs,
         Permitted, SaveEvent
<1>4. QED
  BY <1>1, <1>2, <1>3

(* While a call carries its request out, no other has read the task: it    *)
(* holds the row, or it creates the task, which is not there yet.          *)
LEMMA NobodyElseReads ==
  ASSUME TaskInv, NEW c \in Calls, Operation(c), NEW d \in Calls, d # c
  PROVE  ~ReadsTask(d)
<1>1. pc[c] = "decide" /\ Saved(c) = {}
  BY OperationEnds DEF TaskInv
<1>2. CASE asks[c].action = "create"
  BY <1>1, <1>2 DEF TaskInv, CreatedByRequest, LocksHeld, HoldsItsLocks
<1>3. CASE asks[c].action # "create"
  BY <1>1, <1>3 DEF TaskInv, LocksHeld, HoldsItsLocks, ReadsTask, TypeOK
<1>4. QED
  BY <1>2, <1>3

(* The end of a call takes nothing from the others.                        *)
LEMMA AnswerKeepsLocks ==
  ASSUME TypeOK, LocksHeld, NEW c \in Calls, NEW reply \in Row, Answer(c, reply),
         UNCHANGED asks,
         UNCHANGED task \/ \A d \in Calls \ {c} : ~ReadsTask(d)
  PROVE  LocksHeld'
<1> SUFFICES ASSUME NEW d \in Calls PROVE HoldsItsLocks(d)'
  BY DEF LocksHeld
<1>1. HoldsItsLocks(d)
  BY DEF LocksHeld
<1>2. CASE d = c
  BY <1>2 DEF Answer, Goto, TypeOK, HoldsItsLocks, ReadsTask
<1>3. CASE d # c
  <2>1. /\ pc'[d] = pc[d] /\ seen'[d] = seen[d] /\ asks' = asks
        /\ (d \in taskLock' <=> d \in taskLock) /\ (d \in groupLock' <=> d \in groupLock)
    BY <1>3 DEF Answer, Goto, TypeOK
  <2>2. QED
    BY <1>1, <1>3, <2>1 DEF HoldsItsLocks, ReadsTask
<1>4. QED
  BY <1>2, <1>3

LEMMA StepLocksHeld == TaskInv /\ Next => LocksHeld'
<1> SUFFICES ASSUME TaskInv, Next PROVE LocksHeld'
  OBVIOUS
<1>1. TypeOK /\ LocksHeld /\ Failed \in Row
  BY DEF TaskInv, Failed, Row
<1>2. ASSUME NEW c \in Calls, Begin(c) PROVE LocksHeld'
  <2>1. CASE Answer(c, Failed)
    BY <1>1, <1>2, <2>1, AnswerKeepsLocks DEF Begin, tables
  <2>2. CASE pc' = [pc EXCEPT ![c] = IF asks[c].action = "create" THEN "authorise" ELSE "lock"]
             /\ UNCHANGED <<locks, seen, told>>
    BY <1>1, <1>2, <2>2 DEF Begin, tables, locks, TypeOK, LocksHeld, HoldsItsLocks, ReadsTask
  <2>3. QED
    BY <1>2, <2>1, <2>2 DEF Begin, Goto
<1>3. ASSUME NEW c \in Calls, LockTask(c) PROVE LocksHeld'
  <2>1. CASE Answer(c, Failed)
    BY <1>1, <1>3, <2>1, AnswerKeepsLocks DEF LockTask, tables
  <2>2. CASE taskLock' = {c} /\ task # NoRow
    <3>1. /\ seen' = [seen EXCEPT ![c] = task] /\ pc' = [pc EXCEPT ![c] = "authorise"]
          /\ UNCHANGED <<task, asks, groupLock>> /\ taskLock = {}
      BY <1>3, <2>2 DEF LockTask, Goto, tables
    <3>2. QED
      BY <1>1, <2>2, <3>1 DEF TypeOK, LocksHeld, HoldsItsLocks, ReadsTask
  <2>3. QED
    BY <1>3, <2>1, <2>2 DEF LockTask
<1>4. ASSUME NEW c \in Calls, Authorise(c) PROVE LocksHeld'
  <2>1. CASE Answer(c, Failed)
    BY <1>1, <1>4, <2>1, AnswerKeepsLocks DEF Authorise, tables
  <2>2. CASE groupLock' = {c} /\ role[asks[c].actor] # "none"
    <3>1. /\ pc[c] = "authorise" /\ pc' = [pc EXCEPT ![c] = "decide"]
          /\ UNCHANGED <<task, asks, taskLock, seen>> /\ groupLock = {}
      BY <1>4, <2>2 DEF Authorise, Goto, tables
    <3>2. QED
      BY <1>1, <2>2, <3>1 DEF TypeOK, LocksHeld, HoldsItsLocks, ReadsTask
  <2>3. QED
    BY <1>4, <2>1, <2>2 DEF Authorise
<1>5. ASSUME NEW c \in Calls, Repeat(c) PROVE LocksHeld'
  <2>1. PICK reply \in Row : Answer(c, reply)
    BY <1>1, <1>5, EventsHaveResults DEF Repeat, Saved
  <2>2. QED
    BY <1>1, <1>5, <2>1, AnswerKeepsLocks DEF Repeat, tables
<1>6. ASSUME NEW c \in Calls, Refuse(c) PROVE LocksHeld'
  BY <1>1, <1>6, AnswerKeepsLocks DEF Refuse, tables
<1>7. ASSUME NEW c \in Calls, Abort(c) PROVE LocksHeld'
  BY <1>1, <1>7, AnswerKeepsLocks DEF Abort, tables
<1>8. ASSUME NEW c \in Calls, Operation(c) PROVE LocksHeld'
  <2>1. PICK reply \in Row : Answer(c, reply)
    BY <1>1, <1>8, OperationEnds
  <2>2. UNCHANGED asks /\ \A d \in Calls \ {c} : ~ReadsTask(d)
    BY <1>1, <1>8, OperationEnds, NobodyElseReads
  <2>3. QED
    BY <1>1, <2>1, <2>2, AnswerKeepsLocks
<1>9. CASE Deadline
  BY <1>1, <1>9 DEF Deadline, tables, locks, LocksHeld, HoldsItsLocks, ReadsTask
<1>10. ASSUME NEW u \in Users, Leave(u) PROVE LocksHeld'
  BY <1>1, <1>10 DEF Leave, tables, locks, LocksHeld, HoldsItsLocks, ReadsTask
<1>11. QED
  BY <1>2, <1>3, <1>4, <1>5, <1>6, <1>7, <1>8, <1>9, <1>10 DEF Next, Progress, Operation

-----------------------------------------------------------------------------
(* A call is answered by its last step only.                               *)
LEMMA StepAnsweredAtTheEnd == TaskInv /\ Next => AnsweredAtTheEnd'
<1> SUFFICES ASSUME TaskInv, Next, NEW d \in Calls, pc'[d] # "done" PROVE told'[d] = NotTold
  BY DEF AnsweredAtTheEnd
<1>1. TypeOK /\ (pc[d] # "done" => told[d] = NotTold)
  BY DEF TaskInv, AnsweredAtTheEnd
<1>2. ASSUME NEW c \in Calls, NEW reply, Answer(c, reply) PROVE told'[d] = NotTold
  BY <1>1, <1>2 DEF Answer, Goto, TypeOK
<1>3. ASSUME NEW c \in Calls, NEW next, Goto(c, next), pc[c] # "done", UNCHANGED told
      PROVE  told'[d] = NotTold
  BY <1>1, <1>3 DEF Goto, TypeOK
<1>4. ASSUME NEW c \in Calls, Begin(c) PROVE told'[d] = NotTold
  BY <1>2, <1>3, <1>4 DEF Begin
<1>5. ASSUME NEW c \in Calls, LockTask(c) PROVE told'[d] = NotTold
  BY <1>2, <1>3, <1>5 DEF LockTask
<1>6. ASSUME NEW c \in Calls, Authorise(c) PROVE told'[d] = NotTold
  BY <1>2, <1>3, <1>6 DEF Authorise
<1>7. ASSUME NEW c \in Calls, Repeat(c) \/ Refuse(c) \/ Abort(c) PROVE told'[d] = NotTold
  BY <1>2, <1>7 DEF Repeat, Refuse, Abort
<1>8. ASSUME NEW c \in Calls, Operation(c) PROVE told'[d] = NotTold
  BY <1>1, <1>2, <1>8, OperationEnds
<1>9. CASE Deadline
  BY <1>1, <1>9 DEF Deadline
<1>10. ASSUME NEW u \in Users, Leave(u) PROVE told'[d] = NotTold
  BY <1>1, <1>10 DEF Leave
<1>11. QED
  BY <1>4, <1>5, <1>6, <1>7, <1>8, <1>9, <1>10 DEF Next, Progress, Operation

-----------------------------------------------------------------------------
(* Steps other than operations write neither the task nor a submission nor *)
(* an event, and nobody changes what a call asks.                          *)
LEMMA OthersWriteNothing ==
  ASSUME Next, ~\E c \in Calls : Operation(c)
  PROVE  UNCHANGED <<task, work, events, notices, asks>>
<1>1. ASSUME NEW c \in Calls,
             \/ Begin(c) \/ LockTask(c) \/ Authorise(c) \/ Repeat(c) \/ Refuse(c) \/ Abort(c)
      PROVE  UNCHANGED <<task, work, events, notices, asks>>
  BY <1>1 DEF Begin, LockTask, Authorise, Repeat, Refuse, Abort, tables
<1>2. CASE Deadline
  BY <1>2 DEF Deadline, tables
<1>3. ASSUME NEW u \in Users, Leave(u) PROVE UNCHANGED <<task, work, events, notices, asks>>
  BY <1>3 DEF Leave, tables
<1>4. QED
  BY <1>1, <1>2, <1>3 DEF Next, Progress, Operation

(* A creation finds no task, or its own event.                             *)
LEMMA StepCreatedByRequest ==
  TaskInv /\ Next => CreationsAgree' /\ CreatedByRequest'
<1> SUFFICES ASSUME TaskInv, Next PROVE CreationsAgree' /\ CreatedByRequest'
  OBVIOUS
<1>1. TypeOK /\ LocksHeld /\ CreationsAgree /\ CreatedByRequest
  BY DEF TaskInv
<1>2. CASE ~\E c \in Calls : Operation(c)
  BY <1>1, <1>2, OthersWriteNothing DEF CreationsAgree, CreatedByRequest, Saved
<1>3. ASSUME NEW c \in Calls, Operation(c) PROVE CreationsAgree' /\ CreatedByRequest'
  <2>1. UNCHANGED asks /\ pc[c] = "decide"
    BY <1>1, <1>3, OperationEnds
  <2>2. PICK result \in Row : Records(c, result)
    BY <1>1, <1>3, OperationRecords
  <2>3. CreationsAgree'
    BY <1>1, <2>1 DEF CreationsAgree
  <2>4. ASSUME NEW d \in Calls, asks[d].action = "create" PROVE Saved(d)' # {}
    <3>1. CASE asks[c].action = "create"
      <4>1. asks'[d] = asks[c]
        BY <1>1, <2>1, <2>4, <3>1 DEF CreationsAgree
      <4>2. Len(events') \in DOMAIN events' /\ events'[Len(events')].request = asks[c]
        <5>1. events \in Seq(EventRow) /\ events' \in Seq(EventRow) /\ Len(events') = Len(events) + 1
          BY <1>1, <2>2 DEF Records, TypeOK
        <5>2. QED
          BY <2>2, <5>1 DEF Records, Last
      <4>3. QED
        BY <4>1, <4>2 DEF Saved, KeyOf
    <3>2. CASE asks[c].action # "create"
      <4>1. task # NoRow
        BY <1>1, <2>1, <3>2 DEF LocksHeld, HoldsItsLocks, ReadsTask
      <4>2. PICK n \in Saved(d) : TRUE
        BY <1>1, <2>4, <4>1 DEF CreatedByRequest
      <4>3. n \in Saved(d)'
        BY <2>1, <2>2, <4>2 DEF Saved, Records, Extends
      <4>4. QED
        BY <4>3
    <3>3. QED
      BY <3>1, <3>2
  <2>5. QED
    BY <2>1, <2>3, <2>4 DEF CreatedByRequest
<1>4. QED
  BY <1>2, <1>3

(* What each operation writes: a task it found as it was read, with the    *)
(* version expected, and nobody's work but the one it is about.            *)
WritesTask(c, status) ==
  /\ task' = Bump(task, status) /\ status # "closed"
  /\ UNCHANGED work
  /\ asks[c].action = "create" \/ asks[c].expected = task.version

ClosesTask(c) ==
  /\ task' = Bump(task, "closed") /\ asks[c].expected = task.version
  /\ UNCHANGED work
  /\ \A u \in Users : work[u].status # "submitted"

WritesWork(c, u, status) ==
  /\ task.status = "published" /\ UNCHANGED task
  /\ asks[c].expected = work[u].version
  /\ work' = [work EXCEPT ![u] = Bump(work[u], status)]

LEMMA OperationWrites ==
  ASSUME TaskInv, NEW c \in Calls, Operation(c)
  PROVE  \/ \E status \in {"draft", "published"} : WritesTask(c, status)
         \/ ClosesTask(c)
         \/ \E u \in Users, status \in {"submitted", "approved", "returned"} :
              WritesWork(c, u, status)
<1>1. TypeOK /\ pc[c] = "decide" /\ Saved(c) = {}
  BY OperationEnds DEF TaskInv
<1>2. asks[c].action # "create" => seen[c] = task
  BY <1>1 DEF TaskInv, LocksHeld, HoldsItsLocks, ReadsTask
<1>3. asks[c] \in Request
  BY <1>1 DEF TypeOK
<1> USE DEF Permitted, Allowed
<1>4. CASE Create(c)
  <2>1. asks[c].action = "create"
    BY <1>4 DEF Create
  <2>2. task = NoRow
    BY <1>1, <2>1 DEF TaskInv, CreatedByRequest
  <2>3. QED
    BY <1>4, <2>1, <2>2 DEF Create, WritesTask
<1>5. CASE UpdateDraft(c)
  BY <1>2, <1>5 DEF UpdateDraft, MayEdit, AsExpected, WritesTask
<1>6. CASE Publish(c)
  BY <1>2, <1>6 DEF Publish, MayPublish, MayEdit, AsExpected, WritesTask
<1>7. CASE Close(c)
  BY <1>2, <1>7 DEF Close, MayClose, AsExpected, ClosesTask
<1>8. CASE Submit(c)
  BY <1>2, <1>3, <1>8 DEF Submit, MaySubmit, AsExpected, WritesWork, Request
<1>9. CASE Review(c)
  BY <1>2, <1>3, <1>9 DEF Review, ReviewAs, MayReview, AsExpected, WritesWork, Request
<1>10. QED
  BY <1>4, <1>5, <1>6, <1>7, <1>8, <1>9 DEF Operation

(* Closing and handing in exclude each other: both hold the task's row.    *)
LEMMA StepClosedIsReviewed == TaskInv /\ Next => ClosedIsReviewed'
<1> SUFFICES ASSUME TaskInv, Next PROVE ClosedIsReviewed'
  OBVIOUS
<1>1. TypeOK /\ ClosedIsReviewed
  BY DEF TaskInv
<1>2. CASE ~\E c \in Calls : Operation(c)
  BY <1>1, <1>2, OthersWriteNothing DEF ClosedIsReviewed
<1>3. ASSUME NEW c \in Calls, Operation(c) PROVE ClosedIsReviewed'
  <2>1. CASE \E status \in {"draft", "published"} : WritesTask(c, status)
    BY <2>1 DEF WritesTask, Bump, ClosedIsReviewed
  <2>2. CASE ClosesTask(c)
    BY <2>2 DEF ClosesTask, ClosedIsReviewed
  <2>3. CASE \E u \in Users, status \in {"submitted", "approved", "returned"} :
               WritesWork(c, u, status)
    BY <2>3 DEF WritesWork, ClosedIsReviewed
  <2>4. QED
    BY <1>3, <2>1, <2>2, <2>3, OperationWrites
<1>4. QED
  BY <1>2, <1>3

-----------------------------------------------------------------------------
(* A notice's row is written: its status, attempts and due time, never its *)
(* event and target.                                                       *)
RowWritten(n, status, attempts, due) ==
  /\ notices' \in Seq(NoticeRow) /\ DOMAIN notices' = DOMAIN notices
  /\ \A m \in DOMAIN notices : m # n => notices'[m] = notices[m]
  /\ notices'[n].event = notices[n].event /\ notices'[n].to = notices[n].to
  /\ notices'[n].status = status /\ notices'[n].attempts = attempts
  /\ notices'[n].due = due

NoticeStatuses == {"pending", "processing", "done", "skipped", "dead"}

LEMMA RowIsWritten ==
  ASSUME TypeOK, NEW n \in DOMAIN notices, NEW ACTION row, row \in NoticeRow,
         row.event = notices[n].event, row.to = notices[n].to,
         notices' = [notices EXCEPT ![n] = row]
  PROVE  RowWritten(n, row.status, row.attempts, row.due)
<1>1. notices \in Seq(NoticeRow)
  BY DEF TypeOK
<1>2. /\ notices' \in Seq(NoticeRow) /\ DOMAIN notices' = DOMAIN notices
      /\ notices'[n] = row
      /\ \A m \in DOMAIN notices : m # n => notices'[m] = notices[m]
  BY <1>1
<1>3. QED
  BY <1>2 DEF RowWritten

\* The row of the notice that a notifier has in hand.
LEMMA InHandIsARow ==
  ASSUME TypeOK, NotifiersTypeOK, NEW w \in running, NEW n, Current(w, n)
  PROVE  /\ w \in Notifiers /\ n \in DOMAIN notices
         /\ notices[n] \in NoticeRow /\ batch[w][n] \in Nat
<1>1. w \in Notifiers /\ n \in DOMAIN batch[w]
  BY DEF Current, NotifiersTypeOK
<1>2. n \in DOMAIN notices /\ batch[w][n] \in Nat
  BY <1>1 DEF NotifiersTypeOK
<1>3. notices \in Seq(NoticeRow)
  BY DEF TypeOK
<1>4. QED
  BY <1>1, <1>2, <1>3

LEMMA ClaimWrites ==
  ASSUME TypeOK, NotifiersTypeOK, NEW w \in running, NEW n, Current(w, n),
         ClaimNotice(w, n), DueNow(n)
  PROVE  RowWritten(n, "processing", notices[n].attempts + 1, FALSE)
<1>1. n \in DOMAIN notices /\ notices[n] \in NoticeRow
  BY InHandIsARow
<1>2. PICK k \in Nat : k = notices[n].attempts + 1
  BY <1>1 DEF NoticeRow
<1> DEFINE row == [notices[n] EXCEPT !.status = "processing", !.due = FALSE, !.attempts = k]
<1>3. /\ row \in NoticeRow /\ row.event = notices[n].event /\ row.to = notices[n].to
      /\ row.status = "processing" /\ row.attempts = k /\ row.due = FALSE
  BY <1>1 DEF NoticeRow
<1>4. notices' = [notices EXCEPT ![n] = row]
  BY <1>2 DEF ClaimNotice
<1> HIDE DEF row
<1>5. RowWritten(n, "processing", k, FALSE)
  BY <1>1, <1>3, <1>4, RowIsWritten
<1>6. QED
  BY <1>2, <1>5

LEMMA SettleWrites ==
  ASSUME TypeOK, NotifiersTypeOK, OutcomeIsTrue, NEW w \in running, NEW n, Current(w, n),
         SettleNotice(w, n), LeaseHeld(w, n)
  PROVE  RowWritten(n, StatusAfter(w, n), notices[n].attempts, FALSE)
<1>1. w \in Notifiers /\ n \in DOMAIN notices /\ notices[n] \in NoticeRow
  BY InHandIsARow
<1>3. outcome[w] \in {"done", "skipped", "failed"}
  BY <1>1 DEF OutcomeIsTrue, SettleNotice
<1>4. StatusAfter(w, n) \in NoticeStatuses
  BY <1>3 DEF StatusAfter, NoticeStatuses
<1> DEFINE row == [notices[n] EXCEPT !.status = StatusAfter(w, n), !.due = FALSE]
<1>5. /\ row \in NoticeRow /\ row.event = notices[n].event /\ row.to = notices[n].to
      /\ row.status = StatusAfter(w, n) /\ row.attempts = notices[n].attempts /\ row.due = FALSE
  BY <1>1, <1>4 DEF NoticeRow, NoticeStatuses
<1>6. notices' = [notices EXCEPT ![n] = row]
  BY DEF SettleNotice
<1> HIDE DEF row
<1>7. QED
  BY <1>1, <1>5, <1>6, RowIsWritten

LEMMA DueWrites ==
  ASSUME TypeOK, NEW n \in DOMAIN notices, NoticeBecomesDue(n)
  PROVE  RowWritten(n, notices[n].status, notices[n].attempts, TRUE)
<1>1. notices[n] \in NoticeRow
  <2>1. notices \in Seq(NoticeRow)
    BY DEF TypeOK
  <2>2. QED
    BY <2>1
<1> DEFINE row == [notices[n] EXCEPT !.due = TRUE]
<1>2. /\ row \in NoticeRow /\ row.event = notices[n].event /\ row.to = notices[n].to
      /\ row.status = notices[n].status /\ row.attempts = notices[n].attempts /\ row.due = TRUE
  BY <1>1 DEF NoticeRow
<1>3. notices' = [notices EXCEPT ![n] = row]
  BY DEF NoticeBecomesDue
<1> HIDE DEF row
<1>4. QED
  BY <1>2, <1>3, RowIsWritten

(* Whatever the notifiers do, the notices stay, for their events and       *)
(* targets; so does everything the requests work on.                       *)
SameNotices ==
  /\ notices' \in Seq(NoticeRow) /\ DOMAIN notices' = DOMAIN notices
  /\ \A n \in DOMAIN notices :
       notices'[n].event = notices[n].event /\ notices'[n].to = notices[n].to

LEMMA NotifierKeepsNotices ==
  TypeOK /\ NotifiersTypeOK /\ OutcomeIsTrue /\ NotifierNext => SameNotices
<1> SUFFICES ASSUME TypeOK, NotifiersTypeOK, OutcomeIsTrue, NotifierNext PROVE SameNotices
  OBVIOUS
<1>1. ASSUME UNCHANGED notices PROVE SameNotices
  BY <1>1 DEF SameNotices, TypeOK
<1>2. ASSUME NEW w \in running, Notify(w) PROVE SameNotices
  <2>1. CASE LoadNotices(w)
    BY <1>1, <2>1 DEF LoadNotices
  <2>2. ASSUME NEW n \in DOMAIN batch[w], ProcessNotice(w, n) PROVE SameNotices
    <3>1. CASE ClaimNotice(w, n)
      BY <1>1, <2>2, <3>1, ClaimWrites DEF ClaimNotice, ProcessNotice, RowWritten, SameNotices
    <3>2. CASE SettleNotice(w, n)
      BY <1>1, <2>2, <3>2, SettleWrites DEF SettleNotice, ProcessNotice, RowWritten, SameNotices
    <3>3. CASE CheckTarget(w, n) \/ LookUpMessage(w, n) \/ Address(w, n) \/ StoreMessage(w, n)
      BY <1>1, <3>3 DEF CheckTarget, LookUpMessage, Address, StoreMessage
    <3>4. QED
      BY <2>2, <3>1, <3>2, <3>3 DEF ProcessNotice
  <2>3. QED
    BY <1>2, <2>1, <2>2 DEF Notify
<1>3. ASSUME NEW w \in running, Mishap(w) PROVE SameNotices
  BY <1>1, <1>3 DEF Mishap, NotifierStops, PublishNoticeFails
<1>4. ASSUME NEW n \in DOMAIN notices, NoticeBecomesDue(n) PROVE SameNotices
  BY <1>4, DueWrites DEF RowWritten, SameNotices
<1>5. QED
  BY <1>2, <1>3, <1>4 DEF NotifierNext

LEMMA NotifierKeepsTaskInv == TaskInv /\ NotifierInv /\ NotifierNext => TaskInv'
<1> SUFFICES ASSUME TaskInv, NotifierInv, NotifierNext PROVE TaskInv'
  OBVIOUS
<1>1. SameNotices
  BY NotifierKeepsNotices DEF TaskInv, NotifierInv
<1>2. UNCHANGED requestVars
  BY DEF NotifierNext, requestVars
<1> USE <1>2 DEF requestVars, locks
<1>3. TypeOK'
  BY <1>1 DEF TaskInv, TypeOK, SameNotices
<1>4. LocksHeld' /\ AnsweredAtTheEnd'
  BY DEF TaskInv, LocksHeld, HoldsItsLocks, ReadsTask, AnsweredAtTheEnd
<1>5. CreationsAgree' /\ CreatedByRequest'
  BY DEF TaskInv, CreationsAgree, CreatedByRequest, Saved
<1>6. ClosedIsReviewed'
  BY DEF TaskInv, ClosedIsReviewed
<1>7. QED
  BY <1>3, <1>4, <1>5, <1>6 DEF TaskInv

LEMMA StepTaskInv == TaskInv /\ Next => TaskInv'
BY StepTypeOK, StepLocksHeld, StepAnsweredAtTheEnd, StepCreatedByRequest,
   StepClosedIsReviewed DEF TaskInv

LEMMA StutterTaskInv == TaskInv /\ UNCHANGED vars => TaskInv'
BY DEF vars, tables, locks, TaskInv, TypeOK, LocksHeld, HoldsItsLocks, ReadsTask,
       AnsweredAtTheEnd, CreationsAgree, CreatedByRequest, Saved, ClosedIsReviewed

-----------------------------------------------------------------------------
(* Initially no notice is in hand and no message is stored.                *)
LEMMA InitNotifierInv == NotifiedInit => NotifierInv
<1> SUFFICES ASSUME NEW s \in Scenarios, StartsAs(s), NotifiersStartAs(s) PROVE NotifierInv
  BY DEF NotifiedInit
<1>1. NotifiersTypeOK
  <2>1. \A w \in Notifiers : batch[w] = NoBatch
    BY DEF NotifiersStartAs
  <2>2. DOMAIN NoBatch = {} /\ NoBatch \in [{} -> Nat]
    BY DEF NoBatch
  <2>3. messages \in Seq(MessageRow)
    BY DEF NotifiersStartAs
  <2>4. QED
    BY <2>1, <2>2, <2>3 DEF NotifiersStartAs, NotifiersTypeOK
<1>2. OutcomeIsTrue
  BY DEF NotifiersStartAs, OutcomeIsTrue
<1>3. MessagesAreUnique /\ SettledIsTrue
  BY DEF StartsAs, NotifiersStartAs, MessagesAreUnique, SettledIsTrue
<1>4. QED
  BY <1>1, <1>2, <1>3 DEF NotifierInv

(* A request adds notices that are pending, and a user who left stays out. *)
LEMMA RequestAddsNotices ==
  ASSUME TypeOK, Next
  PROVE  /\ Extends(notices, notices')
         /\ \A n \in DOMAIN notices' \ DOMAIN notices : notices'[n].status = "pending"
         /\ \A u \in Users : role[u] = "none" => role'[u] = "none"
<1>1. CASE ~\E c \in Calls : Operation(c)
  <2>1. UNCHANGED notices
    BY <1>1, OthersWriteNothing
  <2>2. \A u \in Users : role[u] = "none" => role'[u] = "none"
    <3>1. ASSUME NEW c \in Calls, Begin(c) \/ Progress(c) \/ Abort(c) PROVE UNCHANGED role
      BY <1>1, <3>1 DEF Begin, Progress, Abort, LockTask, Authorise, Repeat, Refuse, Operation
    <3>2. CASE Deadline
      BY <3>2 DEF Deadline
    <3>3. ASSUME NEW u \in Users, Leave(u)
          PROVE  \A v \in Users : role[v] = "none" => role'[v] = "none"
      BY <3>3 DEF Leave, TypeOK
    <3>4. QED
      BY <3>1, <3>2, <3>3 DEF Next
  <2>3. QED
    BY <2>1, <2>2 DEF Extends
<1>2. ASSUME NEW c \in Calls, Operation(c)
      PROVE  /\ Extends(notices, notices')
             /\ \A n \in DOMAIN notices' \ DOMAIN notices : notices'[n].status = "pending"
             /\ \A u \in Users : role[u] = "none" => role'[u] = "none"
  BY <1>2, OperationRecords, OperationEnds DEF Records
<1>3. QED
  BY <1>1, <1>2

LEMMA RequestKeepsNotifierInv ==
  TaskInv /\ NotifierInv /\ Next /\ UNCHANGED notifierVars => NotifierInv'
<1> SUFFICES ASSUME TaskInv, NotifierInv, Next, UNCHANGED notifierVars PROVE NotifierInv'
  OBVIOUS
<1>1. /\ Extends(notices, notices')
      /\ \A n \in DOMAIN notices' \ DOMAIN notices : notices'[n].status = "pending"
      /\ \A u \in Users : role[u] = "none" => role'[u] = "none"
  BY RequestAddsNotices DEF TaskInv
<1>2. UNCHANGED <<running, at, batch, recipients, outcome, messages, disruptions>>
  BY DEF notifierVars
<1>3. \A n \in DOMAIN notices : (Sent(n) <=> Sent(n)') /\ (HasLeft(n) => HasLeft(n)')
  <2> SUFFICES ASSUME NEW n \in DOMAIN notices
               PROVE  (Sent(n) <=> Sent(n)') /\ (HasLeft(n) => HasLeft(n)')
    OBVIOUS
  <2>1. notices'[n] = notices[n]
    BY <1>1 DEF Extends
  <2>2. notices[n] \in NoticeRow
    BY DEF TaskInv, TypeOK
  <2>3. notices[n].to \in Users \cup {"group"}
    BY <2>2 DEF NoticeRow
  <2>4. QED
    BY <1>1, <1>2, <2>1, <2>3 DEF Sent, KeyOfNotice, HasLeft
<1>4. NotifiersTypeOK'
  BY <1>1, <1>2 DEF NotifierInv, NotifiersTypeOK, Extends
<1>5. OutcomeIsTrue'
  <2> SUFFICES ASSUME NEW w \in Notifiers, NEW n, at[w] = "settle", Current(w, n)
               PROVE  /\ outcome[w] \in {"done", "skipped", "failed"}
                      /\ outcome[w] = "done" => Sent(n)'
                      /\ outcome[w] = "skipped" => HasLeft(n)'
    BY <1>2 DEF OutcomeIsTrue, Current
  <2>1. n \in DOMAIN notices
    BY DEF Current, NotifierInv, NotifiersTypeOK
  <2>2. QED
    BY <1>3, <2>1 DEF NotifierInv, OutcomeIsTrue
<1>6. MessagesAreUnique'
  BY <1>2 DEF NotifierInv, MessagesAreUnique
<1>7. SettledIsTrue'
  <2> SUFFICES ASSUME NEW n \in DOMAIN notices'
               PROVE  /\ notices'[n].status = "done" => Sent(n)'
                      /\ notices'[n].status = "skipped" => HasLeft(n)'
                      /\ notices'[n].status = "dead" => notices'[n].attempts >= MaxAttempts
    BY DEF SettledIsTrue
  <2>1. CASE n \in DOMAIN notices
    BY <1>1, <1>3, <2>1 DEF Extends, NotifierInv, SettledIsTrue
  <2>2. CASE n \notin DOMAIN notices
    BY <1>1, <2>2
  <2>3. QED
    BY <2>1, <2>2
<1>8. QED
  BY <1>4, <1>5, <1>6, <1>7 DEF NotifierInv

-----------------------------------------------------------------------------
(* Messages are only added, each with a key of its own.                    *)
MessagesGrow ==
  /\ messages' \in Seq(MessageRow)
  /\ MessagesAreUnique'
  /\ \A n \in DOMAIN notices : Sent(n) => Sent(n)'

LEMMA StoredAdds ==
  ASSUME TypeOK, NotifiersTypeOK, MessagesAreUnique,
         NEW w \in running, NEW n, Current(w, n), Stored(w, n), UNCHANGED notices
  PROVE  MessagesGrow /\ Sent(n)'
<1>1. w \in Notifiers /\ n \in DOMAIN notices /\ notices[n] \in NoticeRow
  BY InHandIsARow
<1>2. messages \in Seq(MessageRow) /\ Message(w, n) \in MessageRow
  BY <1>1 DEF NotifiersTypeOK, Message, MessageRow, KeyOfNotice, NoticeRow, Targeted
<1>3. CASE Sent(n)
  BY <1>2, <1>3 DEF Stored, MessagesGrow, MessagesAreUnique, Sent, KeyOfNotice
<1>4. CASE ~Sent(n)
  <2>1. messages' = Append(messages, Message(w, n))
    BY <1>4 DEF Stored
  <2>2. /\ messages' \in Seq(MessageRow) /\ Len(messages') = Len(messages) + 1
        /\ \A m \in 1..Len(messages) : messages'[m] = messages[m]
        /\ messages'[Len(messages) + 1] = Message(w, n)
    BY <1>2, <2>1
  <2>3. DOMAIN messages = 1..Len(messages) /\ DOMAIN messages' = 1..Len(messages) + 1
        /\ Len(messages) \in Nat
    BY <1>2, <2>2
  <2>4. Message(w, n).key = KeyOfNotice(n) /\ KeyOfNotice(n)' = KeyOfNotice(n)
    BY DEF Message, KeyOfNotice
  <2>5. Sent(n)'
    BY <2>2, <2>3, <2>4 DEF Sent
  <2>6. \A k \in DOMAIN notices : Sent(k) => Sent(k)'
    BY <2>2, <2>3 DEF Sent, KeyOfNotice
  <2>7. MessagesAreUnique'
    BY <1>4, <2>2, <2>3, <2>4 DEF MessagesAreUnique, Sent
  <2>8. QED
    BY <2>2, <2>5, <2>6, <2>7 DEF MessagesGrow
<1>5. QED
  BY <1>3, <1>4

LEMMA NotifierStores ==
  TaskInv /\ NotifierInv /\ NotifierNext => MessagesGrow
<1> SUFFICES ASSUME TaskInv, NotifierInv, NotifierNext PROVE MessagesGrow
  OBVIOUS
<1>1. TypeOK /\ NotifiersTypeOK /\ OutcomeIsTrue /\ MessagesAreUnique
  BY DEF TaskInv, NotifierInv
<1>2. SameNotices
  BY <1>1, NotifierKeepsNotices
<1>3. ASSUME UNCHANGED messages PROVE MessagesGrow
  BY <1>1, <1>2, <1>3
     DEF NotifiersTypeOK, MessagesAreUnique, MessagesGrow, Sent, KeyOfNotice, SameNotices
<1>4. ASSUME NEW w \in running, Notify(w) PROVE MessagesGrow
  <2>1. ASSUME NEW n \in DOMAIN batch[w], Current(w, n), StoreMessage(w, n) PROVE MessagesGrow
    BY <1>1, <2>1, StoredAdds DEF StoreMessage
  <2>2. QED
    BY <1>3, <1>4, <2>1 DEF Notify, ProcessNotice, LoadNotices, ClaimNotice, CheckTarget,
                            LookUpMessage, Address, SettleNotice
<1>5. ASSUME NEW w \in running, Mishap(w) PROVE MessagesGrow
  <2>1. CASE NotifierStops(w)
    BY <1>3, <2>1 DEF NotifierStops
  <2>2. ASSUME NEW n \in DOMAIN batch[w], Current(w, n), PublishNoticeFails(w, n)
        PROVE  MessagesGrow
    BY <1>1, <1>3, <2>2, StoredAdds DEF PublishNoticeFails
  <2>3. QED
    BY <1>5, <2>1, <2>2 DEF Mishap
<1>6. ASSUME NEW n \in DOMAIN notices, NoticeBecomesDue(n) PROVE MessagesGrow
  BY <1>3, <1>6 DEF NoticeBecomesDue
<1>7. QED
  BY <1>4, <1>5, <1>6 DEF NotifierNext

(* The attempt of a row that is done with, or of them all, is forgotten.   *)
LEMMA BatchShrinks ==
  ASSUME NotifiersTypeOK, NEW w \in Notifiers, SameNotices,
         \/ Drop(w)
         \/ \E n : Proceed(w, n)
  PROVE  /\ at' \in [Notifiers ->
              {"idle", "claim", "check", "lookup", "address", "store", "settle"}]
         /\ at'[w] \in {"idle", "claim"}
         /\ \A v \in Notifiers : DOMAIN batch'[v] \subseteq DOMAIN notices'
         /\ \A v \in Notifiers : batch'[v] \in [DOMAIN batch'[v] -> Nat]
         /\ DOMAIN batch' = Notifiers
         /\ recipients' \in [Notifiers -> SUBSET Targeted]
         /\ outcome' \in [Notifiers -> {"none", "done", "skipped", "failed"}]
<1>1. PICK rest : /\ batch' = [batch EXCEPT ![w] = rest]
                  /\ rest \in [DOMAIN rest -> Nat] /\ DOMAIN rest \subseteq DOMAIN notices
  <2>1. CASE Drop(w)
    <3>1. NoBatch \in [DOMAIN NoBatch -> Nat] /\ DOMAIN NoBatch \subseteq DOMAIN notices
      BY DEF NoBatch
    <3>2. batch' = [batch EXCEPT ![w] = NoBatch]
      BY <2>1 DEF Drop
    <3>3. QED
      BY <3>1, <3>2, Zenon
  <2>2. ASSUME NEW n, Proceed(w, n)
        PROVE  \E rest : /\ batch' = [batch EXCEPT ![w] = rest]
                         /\ rest \in [DOMAIN rest -> Nat] /\ DOMAIN rest \subseteq DOMAIN notices
    <3> DEFINE left == Restrict(batch[w], DOMAIN batch[w] \ {n})
    <3>1. /\ batch[w] \in [DOMAIN batch[w] -> Nat] /\ DOMAIN batch[w] \subseteq DOMAIN notices
          /\ DOMAIN batch = Notifiers
      BY DEF NotifiersTypeOK
    <3>2. left \in [DOMAIN left -> Nat] /\ DOMAIN left \subseteq DOMAIN notices
      BY <3>1 DEF Restrict
    <3>3. batch' = [batch EXCEPT ![w] = left]
      BY <2>2, <3>1 DEF Proceed
    <3> HIDE DEF left
    <3>4. QED
      BY <3>2, <3>3, Zenon
  <2>3. QED
    BY <2>1, <2>2
<1>2. /\ DOMAIN batch' = Notifiers
      /\ \A v \in Notifiers : batch'[v] = IF v = w THEN rest ELSE batch[v]
  BY <1>1 DEF NotifiersTypeOK
<1>3. /\ at' \in [Notifiers ->
           {"idle", "claim", "check", "lookup", "address", "store", "settle"}]
      /\ at'[w] \in {"idle", "claim"}
      /\ recipients' \in [Notifiers -> SUBSET Targeted]
      /\ outcome' \in [Notifiers -> {"none", "done", "skipped", "failed"}]
  <2>1. PICK next \in {"idle", "claim"} : at' = [at EXCEPT ![w] = next]
    BY DEF Drop, Proceed, Move
  <2>2. /\ outcome' = [outcome EXCEPT ![w] = "none"]
        /\ recipients' = [recipients EXCEPT ![w] = {}]
    BY DEF Drop, Proceed
  <2>3. QED
    BY <2>1, <2>2 DEF NotifiersTypeOK
<1>4. QED
  BY <1>1, <1>2, <1>3 DEF NotifiersTypeOK, SameNotices

(* The types of the notifiers' variables are kept by their steps.          *)
LEMMA StepNotifiersTypeOK ==
  TaskInv /\ NotifierInv /\ NotifierNext => NotifiersTypeOK'
<1> SUFFICES ASSUME TaskInv, NotifierInv, NotifierNext PROVE NotifiersTypeOK'
  OBVIOUS
<1>1. TypeOK /\ NotifiersTypeOK /\ OutcomeIsTrue
  BY DEF TaskInv, NotifierInv
<1>2. SameNotices /\ messages' \in Seq(MessageRow)
  BY <1>1, NotifierKeepsNotices, NotifierStores DEF MessagesGrow
<1>3. role \in [Users -> Roles]
  BY <1>1 DEF TypeOK
<1>4. ASSUME NEW w \in running, Notify(w) PROVE NotifiersTypeOK'
  <2>1. w \in Notifiers
    BY <1>1 DEF NotifiersTypeOK
  <2>2. CASE LoadNotices(w)
    <3>1. PICK first \in SUBSET DOMAIN notices :
            batch' = [batch EXCEPT ![w] = [n \in first |-> notices[n].attempts]]
      BY <2>2 DEF LoadNotices
    <3>2. \A n \in first : notices[n].attempts \in Nat
      <4>1. \A n \in DOMAIN notices : notices[n] \in NoticeRow
        BY <1>1 DEF TypeOK
      <4>2. QED
        BY <3>1, <4>1 DEF NoticeRow
    <3>3. /\ DOMAIN batch' = Notifiers
          /\ \A v \in Notifiers \ {w} : batch'[v] = batch[v]
          /\ DOMAIN batch'[w] = first /\ batch'[w] \in [first -> Nat]
      BY <1>1, <2>1, <3>1, <3>2 DEF NotifiersTypeOK
    <3>4. QED
      BY <1>1, <1>2, <2>2, <3>1, <3>3 DEF LoadNotices, Move, NotifiersTypeOK, SameNotices
  <2>3. ASSUME NEW n \in DOMAIN batch[w], ProcessNotice(w, n) PROVE NotifiersTypeOK'
    <3>1. n \in DOMAIN notices /\ notices[n] \in NoticeRow
      BY <1>1, <2>3, InHandIsARow DEF ProcessNotice
    <3>2. ASSUME Drop(w) \/ Proceed(w, n), UNCHANGED <<running, disruptions>>
          PROVE  NotifiersTypeOK'
      BY <1>1, <1>2, <2>1, <3>2, BatchShrinks DEF NotifiersTypeOK
    <3>3. CASE ClaimNotice(w, n)
      <4>1. CASE DueNow(n)
        BY <1>1, <1>2, <3>3, <4>1 DEF ClaimNotice, Move, NotifiersTypeOK, SameNotices
      <4>2. CASE ~DueNow(n)
        BY <3>2, <3>3, <4>2 DEF ClaimNotice
      <4>3. QED
        BY <4>1, <4>2
    <3>4. CASE CheckTarget(w, n) \/ LookUpMessage(w, n)
      <4>1. /\ UNCHANGED <<running, batch, disruptions>>
            /\ \/ Move(w, "lookup") /\ UNCHANGED <<recipients, outcome>>
               \/ Move(w, "address") /\ UNCHANGED <<recipients, outcome>>
               \/ \E result \in {"done", "skipped"} : ComesTo(w, result)
        BY <3>4 DEF CheckTarget, LookUpMessage
      <4>2. /\ at' \in [Notifiers ->
                  {"idle", "claim", "check", "lookup", "address", "store", "settle"}]
            /\ recipients' \in [Notifiers -> SUBSET Targeted]
            /\ outcome' \in [Notifiers -> {"none", "done", "skipped", "failed"}]
        <5>1. CASE Move(w, "lookup") \/ Move(w, "address")
          BY <1>1, <4>1, <5>1 DEF Move, ComesTo, NotifiersTypeOK
        <5>2. ASSUME NEW result \in {"done", "skipped"}, ComesTo(w, result)
              PROVE  /\ at' = [at EXCEPT ![w] = "settle"]
                     /\ outcome' = [outcome EXCEPT ![w] = result]
                     /\ recipients' = [recipients EXCEPT ![w] = {}]
          BY <5>2 DEF ComesTo, Move
        <5>3. ASSUME NEW result \in {"done", "skipped"}, ComesTo(w, result)
              PROVE  /\ at' \in [Notifiers ->
                          {"idle", "claim", "check", "lookup", "address", "store", "settle"}]
                     /\ recipients' \in [Notifiers -> SUBSET Targeted]
                     /\ outcome' \in [Notifiers -> {"none", "done", "skipped", "failed"}]
          BY <1>1, <5>2, <5>3 DEF NotifiersTypeOK
        <5>4. QED
          BY <4>1, <5>1, <5>3
      <4>3. QED
        BY <1>1, <1>2, <4>1, <4>2 DEF NotifiersTypeOK, SameNotices
    <3>5. CASE Address(w, n)
      <4>1. (IF notices[n].to = "group" THEN {u \in Users : role[u] # "none"} ELSE {notices[n].to})
              \in SUBSET Targeted
        BY <3>1 DEF NoticeRow, Targeted
      <4>2. QED
        BY <1>1, <1>2, <3>5, <4>1 DEF Address, Move, NotifiersTypeOK, SameNotices
    <3>6. CASE StoreMessage(w, n)
      BY <1>1, <1>2, <3>6 DEF StoreMessage, ComesTo, Move, NotifiersTypeOK, SameNotices
    <3>7. CASE SettleNotice(w, n)
      BY <3>2, <3>7 DEF SettleNotice
    <3>8. QED
      BY <2>3, <3>3, <3>4, <3>5, <3>6, <3>7 DEF ProcessNotice
  <2>4. QED
    BY <1>4, <2>2, <2>3 DEF Notify
<1>5. ASSUME NEW w \in running, Mishap(w) PROVE NotifiersTypeOK'
  <2>1. w \in Notifiers /\ (Disrupted => disruptions' \in Nat)
    BY <1>1 DEF NotifiersTypeOK, Disrupted
  <2>2. CASE NotifierStops(w)
    BY <1>1, <1>2, <2>1, <2>2, BatchShrinks DEF NotifierStops, NotifiersTypeOK
  <2>3. ASSUME NEW n, PublishNoticeFails(w, n) PROVE NotifiersTypeOK'
    BY <1>1, <1>2, <2>1, <2>3
       DEF PublishNoticeFails, ComesTo, Move, NotifiersTypeOK, SameNotices
  <2>4. QED
    BY <1>5, <2>2, <2>3 DEF Mishap
<1>6. ASSUME NEW n \in DOMAIN notices, NoticeBecomesDue(n) PROVE NotifiersTypeOK'
  BY <1>1, <1>2, <1>6 DEF NoticeBecomesDue, Disrupted, NotifiersTypeOK, SameNotices
<1>7. QED
  BY <1>4, <1>5, <1>6 DEF NotifierNext

-----------------------------------------------------------------------------
(* A notifier has one current row.                                         *)
LEMMA CurrentIsUnique ==
  ASSUME TypeOK, NotifiersTypeOK, NEW w \in Notifiers, NEW n, NEW k, Current(w, n), Current(w, k)
  PROVE  n = k
<1>1. notices \in Seq(NoticeRow)
  BY DEF TypeOK
<1>2. n \in Nat /\ k \in Nat
  <2>1. n \in DOMAIN notices /\ k \in DOMAIN notices
    BY DEF Current, NotifiersTypeOK
  <2>2. QED
    BY <1>1, <2>1
<1>3. QED
  BY <1>2 DEF Current

TrueOutcome(w, n) ==
  /\ outcome[w] \in {"done", "skipped", "failed"}
  /\ outcome[w] = "done" => Sent(n)
  /\ outcome[w] = "skipped" => HasLeft(n)

(* What a notifier is about to record stays true until it has recorded it. *)
LEMMA StepOutcomeIsTrue ==
  TaskInv /\ NotifierInv /\ NotifierNext => OutcomeIsTrue'
<1> SUFFICES ASSUME TaskInv, NotifierInv, NotifierNext,
                    NEW v \in Notifiers, NEW n \in DOMAIN notices,
                    at'[v] = "settle", Current(v, n)'
             PROVE  TrueOutcome(v, n)'
  BY NotifierKeepsNotices DEF OutcomeIsTrue, TrueOutcome, SameNotices, TaskInv, NotifierInv
<1>1. TypeOK /\ NotifiersTypeOK /\ OutcomeIsTrue
  BY DEF TaskInv, NotifierInv
<1>2. /\ Sent(n) => Sent(n)'
      /\ HasLeft(n) <=> HasLeft(n)'
  BY <1>1, NotifierStores, NotifierKeepsNotices
     DEF MessagesGrow, SameNotices, HasLeft, NotifierNext
<1>3. ASSUME at'[v] = at[v], batch'[v] = batch[v], outcome'[v] = outcome[v]
      PROVE  TrueOutcome(v, n)'
  BY <1>1, <1>2, <1>3 DEF OutcomeIsTrue, TrueOutcome, Current
<1>4. ASSUME NEW w \in running, Notify(w) PROVE TrueOutcome(v, n)'
  <2>1. w \in Notifiers
    BY <1>1 DEF NotifiersTypeOK
  <2>2. CASE LoadNotices(w)
    BY <1>1, <1>3, <2>1, <2>2 DEF LoadNotices, Move, NotifiersTypeOK
  <2>3. ASSUME NEW k \in DOMAIN batch[w], ProcessNotice(w, k) PROVE TrueOutcome(v, n)'
    <3>1. batch' = batch /\ v = w => n = k
      BY <1>1, <2>1, <2>3, CurrentIsUnique DEF ProcessNotice, Current
    <3>2. ASSUME Drop(w) \/ Proceed(w, k) PROVE TrueOutcome(v, n)'
      BY <1>1, <1>3, <2>1, <3>2 DEF Drop, Proceed, Move, NotifiersTypeOK
    <3>3. CASE ClaimNotice(w, k)
      BY <1>1, <1>3, <2>1, <3>2, <3>3 DEF ClaimNotice, Move, NotifiersTypeOK
    <3>4. CASE CheckTarget(w, k)
      BY <1>1, <1>2, <1>3, <2>1, <3>1, <3>4
         DEF CheckTarget, ComesTo, Move, NotifiersTypeOK, TrueOutcome, HasLeft
    <3>5. CASE LookUpMessage(w, k)
      BY <1>1, <1>2, <1>3, <2>1, <3>1, <3>5
         DEF LookUpMessage, ComesTo, Move, NotifiersTypeOK, TrueOutcome
    <3>6. CASE Address(w, k)
      BY <1>1, <1>3, <2>1, <3>6 DEF Address, Move, NotifiersTypeOK
    <3>7. CASE StoreMessage(w, k)
      <4>1. Sent(k)'
        BY <1>1, <2>3, <3>7, StoredAdds DEF StoreMessage, ProcessNotice, NotifierInv
      <4>2. QED
        BY <1>1, <1>3, <2>1, <3>1, <3>7, <4>1
           DEF StoreMessage, ComesTo, Move, NotifiersTypeOK, TrueOutcome
    <3>8. CASE SettleNotice(w, k)
      BY <3>2, <3>8 DEF SettleNotice
    <3>9. QED
      BY <2>3, <3>3, <3>4, <3>5, <3>6, <3>7, <3>8 DEF ProcessNotice
  <2>4. QED
    BY <1>4, <2>2, <2>3 DEF Notify
<1>5. ASSUME NEW w \in running, Mishap(w) PROVE TrueOutcome(v, n)'
  <2>1. w \in Notifiers
    BY <1>1 DEF NotifiersTypeOK
  <2>2. CASE NotifierStops(w)
    BY <1>1, <1>3, <2>1, <2>2 DEF NotifierStops, Drop, Move, NotifiersTypeOK
  <2>3. ASSUME NEW k, PublishNoticeFails(w, k) PROVE TrueOutcome(v, n)'
    BY <1>1, <1>3, <2>1, <2>3
       DEF PublishNoticeFails, ComesTo, Move, NotifiersTypeOK, TrueOutcome
  <2>4. QED
    BY <1>5, <2>2, <2>3 DEF Mishap
<1>6. ASSUME NEW k \in DOMAIN notices, NoticeBecomesDue(k) PROVE TrueOutcome(v, n)'
  BY <1>3, <1>6 DEF NoticeBecomesDue
<1>7. QED
  BY <1>4, <1>5, <1>6 DEF NotifierNext

(* A status that ends a notice was written by a worker whose outcome was   *)
(* so, and who held the lease under which it had counted the attempts.     *)
LEMMA StepSettledIsTrue ==
  TaskInv /\ NotifierInv /\ NotifierNext => SettledIsTrue'
<1> SUFFICES ASSUME TaskInv, NotifierInv, NotifierNext, NEW n \in DOMAIN notices
             PROVE  /\ notices'[n].status = "done" => Sent(n)'
                    /\ notices'[n].status = "skipped" => HasLeft(n)'
                    /\ notices'[n].status = "dead" => notices'[n].attempts >= MaxAttempts
  BY NotifierKeepsNotices DEF SettledIsTrue, SameNotices, TaskInv, NotifierInv
<1> DEFINE Settled == /\ notices'[n].status = "done" => Sent(n)'
                      /\ notices'[n].status = "skipped" => HasLeft(n)'
                      /\ notices'[n].status = "dead" => notices'[n].attempts >= MaxAttempts
<1>1. TypeOK /\ NotifiersTypeOK /\ OutcomeIsTrue /\ SettledIsTrue
  BY DEF TaskInv, NotifierInv
<1>2. /\ Sent(n) => Sent(n)'
      /\ HasLeft(n) <=> HasLeft(n)'
  BY <1>1, NotifierStores, NotifierKeepsNotices
     DEF MessagesGrow, SameNotices, HasLeft, NotifierNext
<1>3. ASSUME notices'[n] = notices[n] PROVE Settled
  BY <1>1, <1>2, <1>3 DEF SettledIsTrue
<1>4. ASSUME NEW w \in running, NEW k, ProcessNotice(w, k) PROVE Settled
  <2>1. Current(w, k) /\ w \in Notifiers /\ k \in DOMAIN notices /\ batch[w][k] \in Nat
    BY <1>1, <1>4, InHandIsARow DEF ProcessNotice
  <2>2. CASE ClaimNotice(w, k)
    <3>1. CASE DueNow(k)
      <4>1. RowWritten(k, "processing", notices[k].attempts + 1, FALSE)
        BY <1>1, <2>1, <2>2, <3>1, ClaimWrites
      <4>2. QED
        BY <1>3, <4>1 DEF RowWritten
    <3>2. CASE ~DueNow(k)
      BY <1>3, <2>2, <3>2 DEF ClaimNotice
    <3>3. QED
      BY <3>1, <3>2
  <2>3. CASE SettleNotice(w, k)
    <3>1. CASE LeaseHeld(w, k)
      <4>1. RowWritten(k, StatusAfter(w, k), notices[k].attempts, FALSE)
        BY <1>1, <2>1, <2>3, <3>1, SettleWrites
      <4>2. CASE n # k
        BY <1>3, <4>1, <4>2 DEF RowWritten
      <4>3. CASE n = k
        <5>1. notices'[n].status = StatusAfter(w, n) /\ notices'[n].attempts = notices[n].attempts
          BY <4>1, <4>3 DEF RowWritten
        <5>2. /\ outcome[w] \in {"done", "skipped", "failed"}
              /\ outcome[w] = "done" => Sent(n)
              /\ outcome[w] = "skipped" => HasLeft(n)
          BY <1>1, <2>1, <2>3, <4>3 DEF OutcomeIsTrue, SettleNotice
        <5>3. notices[n].attempts = ClaimedAs(w, n)
          BY <3>1, <4>3 DEF LeaseHeld
        <5>4. QED
          BY <1>2, <5>1, <5>2, <5>3 DEF StatusAfter
      <4>4. QED
        BY <4>2, <4>3
    <3>2. CASE ~LeaseHeld(w, k)
      BY <1>3, <2>3, <3>2 DEF SettleNotice
    <3>3. QED
      BY <3>1, <3>2
  <2>4. CASE CheckTarget(w, k) \/ LookUpMessage(w, k) \/ Address(w, k) \/ StoreMessage(w, k)
    BY <1>3, <2>4 DEF CheckTarget, LookUpMessage, Address, StoreMessage
  <2>5. QED
    BY <1>4, <2>2, <2>3, <2>4 DEF ProcessNotice
<1>5. ASSUME NEW w \in running, LoadNotices(w) \/ Mishap(w) PROVE Settled
  BY <1>3, <1>5 DEF LoadNotices, Mishap, NotifierStops, PublishNoticeFails
<1>6. ASSUME NEW k \in DOMAIN notices, NoticeBecomesDue(k) PROVE Settled
  <2>1. RowWritten(k, notices[k].status, notices[k].attempts, TRUE)
    BY <1>1, <1>6, DueWrites
  <2>2. QED
    BY <1>1, <1>2, <1>3, <2>1 DEF RowWritten, SettledIsTrue
<1>7. QED
  BY <1>4, <1>5, <1>6 DEF NotifierNext, Notify

-----------------------------------------------------------------------------
(* The inductive invariant of requests and notifiers side by side.         *)
LEMMA InitIInv == NotifiedInit => IInv
BY InitTaskInv, InitNotifierInv DEF IInv

LEMMA StepIInv == IInv /\ [NotifiedNext]_<<vars, notifierVars>> => IInv'
<1> SUFFICES ASSUME IInv, [NotifiedNext]_<<vars, notifierVars>> PROVE IInv'
  OBVIOUS
<1>1. TaskInv /\ NotifierInv
  BY DEF IInv
<1>2. CASE Next /\ UNCHANGED notifierVars
  BY <1>1, <1>2, StepTaskInv, RequestKeepsNotifierInv DEF IInv
<1>3. CASE NotifierNext
  <2>1. TaskInv' /\ NotifiersTypeOK' /\ OutcomeIsTrue' /\ MessagesAreUnique' /\ SettledIsTrue'
    BY <1>1, <1>3, NotifierKeepsTaskInv, NotifierStores, StepNotifiersTypeOK,
       StepOutcomeIsTrue, StepSettledIsTrue DEF MessagesGrow
  <2>2. QED
    BY <2>1 DEF IInv, NotifierInv
<1>4. CASE UNCHANGED <<vars, notifierVars>>
  <2>1. UNCHANGED vars /\ UNCHANGED notifierVars
    BY <1>4
  <2>2. UNCHANGED <<notices, role, running, at, batch, recipients, outcome, messages, disruptions>>
    BY <2>1 DEF vars, tables, notifierVars
  <2>3. TaskInv'
    BY <1>1, <2>1, StutterTaskInv
  <2>4. NotifiersTypeOK' /\ MessagesAreUnique'
    BY <1>1, <2>2 DEF NotifierInv, NotifiersTypeOK, MessagesAreUnique
  <2>5. OutcomeIsTrue' /\ SettledIsTrue'
    <3>1. \A n : KeyOfNotice(n)' = KeyOfNotice(n) /\ HasLeft(n)' = HasLeft(n)
      BY <2>2 DEF KeyOfNotice, HasLeft
    <3>2. \A n : Sent(n)' = Sent(n)
      BY <2>2, <3>1 DEF Sent
    <3>3. OutcomeIsTrue'
      BY <1>1, <2>2, <3>1, <3>2 DEF NotifierInv, OutcomeIsTrue, Current
    <3>4. SettledIsTrue'
      BY <1>1, <2>2, <3>1, <3>2 DEF NotifierInv, SettledIsTrue
    <3>5. QED
      BY <3>3, <3>4
  <2>6. QED
    BY <2>3, <2>4, <2>5 DEF IInv, NotifierInv
<1>5. QED
  BY <1>2, <1>3, <1>4 DEF NotifiedNext

LEMMA Invariant == NotifiedSpec => []IInv
BY InitIInv, StepIInv, PTL DEF NotifiedSpec

(* The tables, the locks and what the calls hold have their types.         *)
THEOREM TypeCorrect == NotifiedSpec => []TypeOK
BY Invariant, PTL DEF IInv, TaskInv

(* No closed task has work that nobody has reviewed (store.go:308), for    *)
(* any number of requests: the row of the task is locked for as long as a  *)
(* decision that rests on it is open.                                      *)
THEOREM NoneClosedUnreviewed == NotifiedSpec => []ClosedIsReviewed
BY Invariant, PTL DEF IInv, TaskInv

(* One message for an event and a target, and no notice is done, skipped   *)
(* or dead without reason (task_notifications.go:72-120), for any number   *)
(* of replicas, attempts, mishaps and requests.                            *)
THEOREM NoticesAreToldOnce == NotifiedSpec => []ToldOnce
<1>1. NotifierInv => ToldOnce
  BY DEF NotifierInv, MessagesAreUnique, SettledIsTrue, HasLeft, ToldOnce
<1>2. QED
  BY <1>1, Invariant, PTL DEF IInv

-----------------------------------------------------------------------------
LEMMA StepNoLostUpdate ==
  ASSUME IInv, [NotifiedNext]_<<vars, notifierVars>>
  PROVE  [ LET r == Last(events').request IN
           /\ task' # task =>
                /\ events' # events /\ task'.version = task.version + 1
                /\ r.action = "create" \/ r.expected = task.version
           /\ \A u \in Users : work'[u] # work[u] =>
                /\ events' # events /\ work'[u].version = work[u].version + 1
                /\ r.expected = work[u].version ]_vars
<1>1. TaskInv /\ TypeOK
  BY DEF IInv, TaskInv
<1>2. CASE UNCHANGED <<task, work>>
  BY <1>2
<1>3. ASSUME NEW c \in Calls, Operation(c)
      PROVE  LET r == Last(events').request IN
           /\ task' # task =>
                /\ events' # events /\ task'.version = task.version + 1
                /\ r.action = "create" \/ r.expected = task.version
           /\ \A u \in Users : work'[u] # work[u] =>
                /\ events' # events /\ work'[u].version = work[u].version + 1
                /\ r.expected = work[u].version
  <2>1. PICK result \in Row : Records(c, result)
    BY <1>1, <1>3, OperationRecords
  <2>2. events' # events /\ Last(events').request = asks[c]
    <3>1. Len(events) \in Nat
      BY <1>1 DEF TypeOK
    <3>2. QED
      BY <2>1, <3>1 DEF Records
  <2>3. work \in [Users -> Row]
    BY <1>1 DEF TypeOK
  <2>4. CASE \E status \in {"draft", "published"} : WritesTask(c, status)
    BY <2>2, <2>4 DEF WritesTask, Bump
  <2>5. CASE ClosesTask(c)
    BY <2>2, <2>5 DEF ClosesTask, Bump
  <2>6. CASE \E u \in Users, status \in {"submitted", "approved", "returned"} :
               WritesWork(c, u, status)
    BY <2>2, <2>3, <2>6 DEF WritesWork, Bump
  <2>7. QED
    BY <1>1, <1>3, <2>4, <2>5, <2>6, OperationWrites
<1>4. QED
  BY <1>2, <1>3, OthersWriteNothing DEF NotifiedNext, NotifierNext, vars, tables

(* Nobody overwrites a state that he has not seen: a row changes only by a *)
(* request that expected the version it had (UpdateDraft, Publish, Close,  *)
(* Submit, Review), however many requests there are.                       *)
THEOREM NothingIsOverwritten == NotifiedSpec => NoLostUpdate
BY Invariant, StepNoLostUpdate, PTL DEF NotifiedSpec, NoLostUpdate

-----------------------------------------------------------------------------
(* Every transaction takes the task's row before the group's, and keeps    *)
(* neither after its call was answered.                                    *)
WaitsFor(c, d) ==
  /\ c # d
  /\ \/ pc[c] = "lock" /\ d \in taskLock
     \/ pc[c] = "authorise" /\ d \in groupLock

Rank(c) ==
  CASE pc[c] = "lock"      -> 1
    [] pc[c] = "authorise" -> 2
    [] pc[c] = "decide"    -> 3
    [] OTHER               -> 0

LocksAreOrdered == \A c, d \in Calls : WaitsFor(c, d) => Rank(c) < Rank(d)

LocksByStep ==
  \A c \in Calls :
    /\ c \in taskLock => pc[c] \in {"authorise", "decide"}
    /\ c \in groupLock => pc[c] = "decide"

(* The end of a call drops its locks and leaves those of the others.       *)
LEMMA AnswerDropsLocks ==
  ASSUME TypeOK, LocksByStep, NEW c \in Calls, NEW reply, Answer(c, reply)
  PROVE  LocksByStep'
<1>1. \A d \in Calls : d # c => pc'[d] = pc[d]
  BY DEF Answer, Goto, TypeOK
<1>2. taskLock' = taskLock \ {c} /\ groupLock' = groupLock \ {c}
  BY DEF Answer
<1>3. QED
  BY <1>1, <1>2 DEF LocksByStep

LEMMA StepLocksByStep ==
  ASSUME TaskInv, LocksByStep, Next
  PROVE  LocksByStep'
<1>1. TypeOK
  BY DEF TaskInv
<1>2. ASSUME NEW c \in Calls, NEW reply, Answer(c, reply) PROVE LocksByStep'
  BY <1>1, <1>2, AnswerDropsLocks
<1>3. ASSUME NEW c \in Calls, Begin(c) PROVE LocksByStep'
  <2>1. CASE UNCHANGED locks
    <3>1. /\ pc[c] = "new" /\ taskLock' = taskLock /\ groupLock' = groupLock
          /\ \A d \in Calls : d # c => pc'[d] = pc[d]
      BY <1>1, <1>3, <2>1 DEF Begin, Goto, Answer, locks, TypeOK
    <3>2. QED
      BY <3>1 DEF LocksByStep
  <2>2. QED
    BY <1>2, <1>3, <2>1 DEF Begin
<1>4. ASSUME NEW c \in Calls, LockTask(c) PROVE LocksByStep'
  <2>1. CASE taskLock' = {c} /\ groupLock' = groupLock /\ pc' = [pc EXCEPT ![c] = "authorise"]
    <3>1. c \notin groupLock
      BY <1>4 DEF LockTask, LocksByStep
    <3>2. QED
      BY <1>1, <2>1, <3>1 DEF LocksByStep, TypeOK
  <2>2. QED
    BY <1>2, <1>4, <2>1 DEF LockTask, Goto
<1>5. ASSUME NEW c \in Calls, Authorise(c) PROVE LocksByStep'
  <2>1. CASE groupLock' = {c} /\ taskLock' = taskLock /\ pc' = [pc EXCEPT ![c] = "decide"]
    BY <1>1, <2>1 DEF LocksByStep, TypeOK
  <2>2. QED
    BY <1>2, <1>5, <2>1 DEF Authorise, Goto
<1>6. ASSUME NEW c \in Calls, Repeat(c) \/ Refuse(c) \/ Abort(c) PROVE LocksByStep'
  BY <1>2, <1>6 DEF Repeat, Refuse, Abort
<1>7. ASSUME NEW c \in Calls, Operation(c) PROVE LocksByStep'
  BY <1>1, <1>2, <1>7, OperationEnds
<1>8. CASE UNCHANGED <<pc, locks>>
  BY <1>8 DEF LocksByStep, locks
<1>9. QED
  BY <1>3, <1>4, <1>5, <1>6, <1>7, <1>8 DEF Next, Progress, Operation, Deadline, Leave

(* Requests on one task never wait for one another in a circle, and no     *)
(* answered call keeps a row locked: mutate locks the task before          *)
(* requireRole locks the group, whatever the operation.                    *)
THEOREM RequestsNeverDeadlock == NotifiedSpec => [](LocksAreOrdered /\ LocksByStep)
<1>1. NotifiedInit => LocksByStep
  BY DEF NotifiedInit, StartsAs, LocksByStep
<1>2. IInv /\ LocksByStep /\ [NotifiedNext]_<<vars, notifierVars>> => LocksByStep'
  <2>1. CASE Next
    BY <2>1, StepLocksByStep DEF IInv
  <2>2. CASE UNCHANGED <<pc, locks>>
    BY <2>2 DEF LocksByStep, locks
  <2>3. QED
    BY <2>1, <2>2 DEF NotifiedNext, NotifierNext, vars
<1>3. IInv /\ LocksByStep => LocksAreOrdered
  BY DEF LocksAreOrdered, LocksByStep, WaitsFor, Rank
<1>4. QED
  BY <1>1, <1>2, <1>3, Invariant, PTL DEF NotifiedSpec

-----------------------------------------------------------------------------
(* The service starts as the ledger of requests does.                      *)
LEMMA InitLedger == NotifiedInit => Ledger!Init
BY DEF NotifiedInit, StartsAs, Ledger!Init

(* What a call is answered, it is told in the ledger.                      *)
LEMMA AnswerTells ==
  ASSUME TaskInv, NEW c \in Calls, NEW reply, pc[c] # "done", Answer(c, reply)
  PROVE  Ledger!Tell(c, reply)
BY DEF Answer, TaskInv, AnsweredAtTheEnd, Ledger!Tell

LEMMA RequestRefinesLedger ==
  ASSUME TaskInv, Next
  PROVE  Ledger!Next \/ UNCHANGED <<asks, events, told>>
<1>1. TypeOK
  BY DEF TaskInv
<1>2. ASSUME NEW c \in Calls, pc[c] # "done", Answer(c, Failed), UNCHANGED <<asks, events>>
      PROVE  Ledger!Next
  BY <1>2, AnswerTells DEF Ledger!Next, Ledger!Fail
<1>3. ASSUME NEW c \in Calls,
             Begin(c) \/ LockTask(c) \/ Authorise(c) \/ Refuse(c) \/ Abort(c)
      PROVE  Ledger!Next \/ UNCHANGED <<asks, events, told>>
  BY <1>2, <1>3 DEF Begin, LockTask, Authorise, Refuse, Abort, tables
<1>4. ASSUME NEW c \in Calls, Repeat(c) PROVE Ledger!Next
  <2>1. PICK n \in Saved(c) :
          Answer(c, IF events[n].request = asks[c] THEN events[n].result ELSE Failed)
    BY <1>4 DEF Repeat
  <2>2. pc[c] # "done" /\ UNCHANGED <<asks, events>> /\ n \in DOMAIN events
    BY <1>4, <2>1 DEF Repeat, tables, Saved
  <2>3. CASE events[n].request = asks[c]
    BY <2>1, <2>2, <2>3, AnswerTells DEF Ledger!Next, Ledger!Repeat
  <2>4. CASE events[n].request # asks[c]
    BY <1>2, <2>1, <2>2, <2>4
  <2>5. QED
    BY <2>3, <2>4
<1>5. ASSUME NEW c \in Calls, Operation(c) PROVE Ledger!Next
  <2>1. PICK result \in Row :
          Records(c, result) /\ \E reply \in {result, Failed} : Answer(c, reply)
    BY <1>1, <1>5, OperationRecords
  <2>2. pc[c] = "decide" /\ Saved(c) = {} /\ UNCHANGED asks
    BY <1>1, <1>5, OperationEnds
  <2>3. Ledger!CarryOut(c)
    <3>1. ~Ledger!Known(asks[c])
      BY <2>2 DEF Ledger!Known, Saved
    <3>2. events \in Seq(EventRow) /\ events' \in Seq(EventRow) /\ Len(events') = Len(events) + 1
          /\ \A n \in 1..Len(events) : events'[n] = events[n]
      <4>1. events \in Seq(EventRow)
        BY <1>1 DEF TypeOK
      <4>2. QED
        BY <2>1, <4>1 DEF Records, Extends
    <3>3. SubSeq(events', 1, Len(events)) = events
      BY <3>2
    <3>4. events'[Len(events')].request = asks[c]
      BY <2>1 DEF Records, Last
    <3>5. QED
      BY <3>1, <3>2, <3>3, <3>4 DEF Ledger!CarryOut
  <2>4. Ledger!Tell(c, events'[Len(events')].result) \/ Ledger!Tell(c, Failed)
    BY <2>1, <2>2, AnswerTells DEF Records, Last
  <2>5. QED
    BY <2>2, <2>3, <2>4 DEF Ledger!Next, Ledger!Perform
<1>6. CASE Deadline \/ \E u \in Users : Leave(u)
  BY <1>6 DEF Deadline, Leave, tables
<1>7. QED
  BY <1>3, <1>4, <1>5, <1>6 DEF Next, Progress, Operation

(* Every request is carried out at most once, whatever is repeated, raced  *)
(* or answered ambiguously (checkIdempotent, uk_task_request): the service *)
(* implements the ledger of requests, and the notifiers do not touch it.   *)
THEOREM RequestsAreCarriedOutOnce == NotifiedSpec => ImplementsRequestLedger
<1>1. IInv /\ [NotifiedNext]_<<vars, notifierVars>>
        => [Ledger!Next]_<<asks, events, told>>
  <2> SUFFICES ASSUME IInv, [NotifiedNext]_<<vars, notifierVars>>
               PROVE  Ledger!Next \/ UNCHANGED <<asks, events, told>>
    OBVIOUS
  <2>1. CASE Next
    BY <2>1, RequestRefinesLedger DEF IInv
  <2>2. CASE ~Next
    BY <2>2 DEF NotifiedNext, NotifierNext, vars, tables
  <2>3. QED
    BY <2>1, <2>2
<1>2. QED
  BY <1>1, InitLedger, Invariant, PTL DEF NotifiedSpec, ImplementsRequestLedger, Ledger!Spec

-----------------------------------------------------------------------------
(* PagedReads and ReconnectReplay.                                         *)
ReadTypes ==
  /\ walk \in Walks
  /\ table \in [Rows -> TableRow]
  /\ standing \in Standing /\ readAs \in Standing
  /\ cursor \in Nat
  /\ shown \in Seq(Shown)
  /\ steady \subseteq Rows
  /\ step \in IF walk.endpoint = "replay"
                THEN {"ask", "pending", "timeline", "recent", "query", "batch", "done", "failed"}
                ELSE {"ask", "fetch", "legacy", "done", "refused"}

HasShown(r) == \E n \in DOMAIN shown : shown[n].row = r

(* What stays listed is selected by whichever role the reader has or had   *)
(* when the request under way read it.                                     *)
SteadyIsListed ==
  /\ \A r \in steady : Selected(r, standing)
  /\ step \in {"fetch", "legacy"} => \A r \in steady : Selected(r, readAs)

(* Everything down to the cursor is shown, and nothing below it.           *)
ShownToCursor ==
  /\ \A m, n \in DOMAIN shown : m < n => shown[m].key > shown[n].key
  /\ step # "done" => \A n \in DOMAIN shown : cursor # 0 /\ shown[n].key >= cursor
  /\ step # "done" => \A r \in steady : cursor # 0 /\ table[r].key >= cursor => HasShown(r)
  /\ step = "done" => \A r \in steady : Owed(r) => HasShown(r)

WalkInv == walk.endpoint # "replay" => SteadyIsListed /\ ShownToCursor

ReplayTypes ==
  /\ pending \subseteq Rows /\ ghosts \subseteq Rows
  /\ timeline \subseteq Rows /\ payloads \subseteq Rows
  /\ todo \in Seq(Rows) /\ replayed \subseteq Rows
  /\ full \in BOOLEAN /\ count \in Nat

(* What was sent is what replayed names, once each, and the entries of     *)
(* pending_ack that are left are others.                                   *)
ReplayedOnce ==
  /\ replayed = {shown[n].row : n \in DOMAIN shown}
  /\ \A m, n \in DOMAIN shown : m # n => shown[m].row # shown[n].row
  /\ step = "ask" => replayed = {}
  /\ step = "pending" =>
       /\ \A i, j \in DOMAIN todo : i # j => todo[i] # todo[j]
       /\ \A i \in DOMAIN todo : todo[i] \notin replayed

(* The rows up to the cursor were sent, or are about to be; the last batch *)
(* has all the others.                                                     *)
SentToCursor ==
  /\ \A r \in steady : There(r)
  /\ step # "failed" => \A r \in steady :
       table[r].key > walk.baseline /\ table[r].key <= cursor =>
         r \in replayed \/ (step = "batch" /\ r \in Range(todo))
  /\ step = "batch" /\ ~full => \A r \in steady :
       table[r].key > walk.baseline => r \in replayed \cup Range(todo)
  /\ step = "done" /\ count < ReplayLimit => \A r \in steady :
       table[r].key > walk.baseline => r \in replayed

ReplayInv == walk.endpoint = "replay" => ReplayedOnce /\ SentToCursor

ReadInv == ReadTypes /\ ReplayTypes /\ WalkInv /\ ReplayInv

-----------------------------------------------------------------------------
\* A row of the table has a status and a key, 0 or one of Keys.
LEMMA RowHasKey ==
  ASSUME NEW rows \in [Rows -> TableRow], NEW r \in Rows
  PROVE  rows[r] \in TableRow /\ rows[r].key \in Nat /\ rows[r].status \in Statuses
<1>1. MaxKey \in Nat
  BY PagedReadsAssumption
<1>2. rows[r] \in TableRow
  OBVIOUS
<1>3. QED
  BY <1>1, <1>2 DEF TableRow, Keys

LEMMA BoundedIsSeq ==
  ASSUME NEW S, NEW n \in Nat, NEW list \in BoundedSeq(S, n)
  PROVE  list \in Seq(S) /\ Len(list) \in Nat /\ Len(list) <= n /\ DOMAIN list = 1..Len(list)
<1>1. PICK k \in 0..n : list \in [1..k -> S]
  BY DEF BoundedSeq, SeqOf
<1>2. list \in Seq(S)
  BY <1>1, SeqDef
<1>3. k \in Nat /\ DOMAIN list = 1..k /\ k <= n
  BY <1>1
<1>4. Len(list) = k
  BY <1>2, <1>3, LenProperties
<1>5. QED
  BY <1>2, <1>3, <1>4

\* What is in a sequence is at one of its places.
LEMMA AtSomePlace ==
  ASSUME NEW S, NEW list \in Seq(S), NEW r \in Range(list)
  PROVE  \E i \in 1..Len(list) : list[i] = r
BY LenProperties DEF Range

\* The rows of a page, as the client gets them.
LEMMA KeptIsShown ==
  ASSUME ReadTypes, NEW page \in Seq(Rows), NEW kept,
         kept = [n \in DOMAIN page |-> [row |-> page[n], key |-> table[page[n]].key]]
  PROVE  /\ kept \in Seq(Shown) /\ Len(kept) = Len(page)
         /\ \A n \in 1..Len(page) :
              kept[n].row = page[n] /\ kept[n].key = table[page[n]].key
<1>1. Len(page) \in Nat /\ DOMAIN page = 1..Len(page)
  BY LenProperties
<1>2. \A n \in 1..Len(page) : page[n] \in Rows /\ table[page[n]].key \in Nat
  BY ElementOfSeq, RowHasKey DEF ReadTypes
<1>3. \A n \in 1..Len(page) : kept[n] \in Shown
  BY <1>1, <1>2 DEF Shown
<1>4. kept \in [1..Len(page) -> Shown]
  BY <1>1, <1>3
<1>5. kept \in Seq(Shown)
  BY <1>1, <1>4, SeqDef
<1>6. Len(kept) = Len(page)
  BY <1>1, <1>4, <1>5, LenProperties
<1>7. QED
  BY <1>1, <1>5, <1>6

(* A page of the rows S: the first ones, by key, of those that there are   *)
(* below the cursor; all of them, if no row was left over.                 *)
LEMMA NewestIs ==
  ASSUME NEW S \in SUBSET Rows, NEW list \in Newest(S, PageLimit + 1)
  PROVE  /\ list \in Seq(Rows) /\ Len(list) \in Nat /\ Len(list) <= PageLimit + 1
         /\ \A i \in 1..Len(list) : list[i] \in S
         /\ \A i, j \in 1..Len(list) : i < j => table[list[i]].key > table[list[j]].key
         /\ \A r \in S \ Range(list) :
              /\ Len(list) = PageLimit + 1
              /\ \A i \in 1..Len(list) : table[r].key < table[list[i]].key
<1>1. PageLimit + 1 \in Nat
  BY PagedReadsAssumption
<1>2. list \in BoundedSeq(S, PageLimit + 1)
  BY DEF Newest
<1>3. list \in Seq(S) /\ Len(list) \in Nat /\ Len(list) <= PageLimit + 1
      /\ DOMAIN list = 1..Len(list)
  BY <1>1, <1>2, BoundedIsSeq
<1>4. list \in Seq(Rows)
  BY <1>3, SeqMonotonic
<1>5. \A i \in 1..Len(list) : list[i] \in S
  BY <1>3, ElementOfSeq
<1>6. QED
  BY <1>3, <1>4, <1>5 DEF Newest

LEMMA OldestIs ==
  ASSUME NEW S \in SUBSET Rows, NEW list \in Oldest(S, SyncBatch)
  PROVE  /\ list \in Seq(Rows) /\ Len(list) \in Nat /\ Len(list) <= SyncBatch
         /\ \A i \in 1..Len(list) : list[i] \in S
         /\ \A i, j \in 1..Len(list) : i < j => table[list[i]].key < table[list[j]].key
         /\ \A r \in S \ Range(list) :
              /\ Len(list) = SyncBatch
              /\ \A i \in 1..Len(list) : table[r].key > table[list[i]].key
<1>1. SyncBatch \in Nat
  BY ReconnectReplayAssumption
<1>2. list \in BoundedSeq(S, SyncBatch)
  BY DEF Oldest
<1>3. list \in Seq(S) /\ Len(list) \in Nat /\ Len(list) <= SyncBatch
      /\ DOMAIN list = 1..Len(list)
  BY <1>1, <1>2, BoundedIsSeq
<1>4. list \in Seq(Rows)
  BY <1>3, SeqMonotonic
<1>5. \A i \in 1..Len(list) : list[i] \in S
  BY <1>3, ElementOfSeq
<1>6. QED
  BY <1>3, <1>4, <1>5 DEF Oldest

-----------------------------------------------------------------------------
(* The walk through the pages.  Two descending lists, the second below the *)
(* cursor and the first not, descend one after the other.                  *)
LEMMA DescendOn ==
  ASSUME NEW above \in Seq(Shown), NEW below \in Seq(Shown), NEW c \in Nat,
         \A m, n \in 1..Len(above) : m < n => above[m].key > above[n].key,
         \A m, n \in 1..Len(below) : m < n => below[m].key > below[n].key,
         \A n \in 1..Len(above) : c # 0 /\ above[n].key >= c,
         \A n \in 1..Len(below) : c = 0 \/ below[n].key < c
  PROVE  \A m, n \in 1..Len(above \o below) :
           m < n => (above \o below)[m].key > (above \o below)[n].key
<1>1. /\ Len(above) \in Nat /\ Len(below) \in Nat
      /\ Len(above \o below) = Len(above) + Len(below)
      /\ \A i \in 1..Len(above) + Len(below) : (above \o below)[i] =
           IF i <= Len(above) THEN above[i] ELSE below[i - Len(above)]
  BY ConcatProperties, LenProperties
<1>2. /\ \A n \in 1..Len(above) : above[n].key \in Nat
      /\ \A n \in 1..Len(below) : below[n].key \in Nat
  <2>1. \A s \in Shown : s.key \in Nat
    BY DEF Shown
  <2>2. /\ \A n \in 1..Len(above) : above[n] \in Shown
        /\ \A n \in 1..Len(below) : below[n] \in Shown
    BY ElementOfSeq
  <2>3. QED
    BY <2>1, <2>2
<1> TAKE m, n \in 1..Len(above \o below)
<1> HAVE m < n
<1>3. CASE n <= Len(above)
  BY <1>1, <1>3
<1>4. CASE m > Len(above)
  <2>1. m - Len(above) \in 1..Len(below) /\ n - Len(above) \in 1..Len(below)
        /\ m - Len(above) < n - Len(above)
    BY <1>1, <1>4
  <2>2. (above \o below)[m] = below[m - Len(above)] /\ (above \o below)[n] = below[n - Len(above)]
    BY <1>1, <1>4
  <2>3. below[m - Len(above)].key > below[n - Len(above)].key
    BY <2>1
  <2>4. QED
    BY <2>2, <2>3
<1>5. CASE m <= Len(above) /\ n > Len(above)
  <2>1. m \in 1..Len(above) /\ n - Len(above) \in 1..Len(below)
    BY <1>1, <1>5
  <2>2. (above \o below)[m] = above[m] /\ (above \o below)[n] = below[n - Len(above)]
    BY <1>1, <1>5
  <2>3. QED
    BY <1>2, <2>1, <2>2
<1>6. QED
  BY <1>1, <1>3, <1>4, <1>5

(* What one page adds: TurnPage, with its page named.                      *)
LEMMA PageIs ==
  ASSUME ReadTypes, NEW sel \in SUBSET Rows, \A r \in sel : There(r), TurnPage(sel)
  PROVE  \E kept \in Seq(Shown) :
           /\ shown' = shown \o kept
           /\ \A m, n \in 1..Len(kept) : m < n => kept[m].key > kept[n].key
           /\ \A n \in 1..Len(kept) :
                kept[n].key # 0 /\ (cursor = 0 \/ kept[n].key < cursor)
           /\ step' = "ask" =>
                /\ cursor' = kept[Len(kept)].key /\ Len(kept) > 0
                /\ \A r \in sel :
                     table[r].key >= cursor' =>
                       \/ cursor # 0 /\ table[r].key >= cursor
                       \/ \E n \in 1..Len(kept) : kept[n].row = r
           /\ step' = "done" =>
                \A r \in sel :
                  Owed(r) =>
                    \/ cursor # 0 /\ table[r].key >= cursor
                    \/ \E n \in 1..Len(kept) : kept[n].row = r
           /\ step' \in {"ask", "done"} /\ cursor' \in Nat
<1> DEFINE S == {r \in sel : cursor = 0 \/ table[r].key < cursor}
<1>1. PICK list \in Newest(S, PageLimit + 1) :
        LET more == Len(list) > PageLimit
            page == IF more THEN SubSeq(list, 1, PageLimit) ELSE list
            kept == [n \in DOMAIN page |-> [row |-> page[n], key |-> table[page[n]].key]]
        IN /\ shown' = shown \o kept
           /\ cursor' = IF more THEN NextCursor(list) ELSE cursor
           /\ step' = IF more /\ ~Overlaps(kept) THEN "ask" ELSE "done"
  BY DEF TurnPage
<1> DEFINE more == Len(list) > PageLimit
           page == IF more THEN SubSeq(list, 1, PageLimit) ELSE list
           kept == [n \in DOMAIN page |-> [row |-> page[n], key |-> table[page[n]].key]]
<1>2. /\ list \in Seq(Rows) /\ Len(list) \in Nat /\ Len(list) <= PageLimit + 1
      /\ \A i \in 1..Len(list) : list[i] \in S
      /\ \A i, j \in 1..Len(list) : i < j => table[list[i]].key > table[list[j]].key
      /\ \A r \in S \ Range(list) :
           /\ Len(list) = PageLimit + 1
           /\ \A i \in 1..Len(list) : table[r].key < table[list[i]].key
  <2> HIDE DEF S
  <2>1. S \in SUBSET Rows
    BY DEF S
  <2>2. QED
    BY <1>1, <2>1, NewestIs
<1>3. PageLimit \in Nat /\ PageLimit > 0
  BY PagedReadsAssumption
<1>4. \A r \in Rows : table[r].key \in Nat
  BY RowHasKey DEF ReadTypes
<1>5. /\ page \in Seq(Rows) /\ Len(page) = IF more THEN PageLimit ELSE Len(list)
      /\ \A i \in 1..Len(page) : page[i] = list[i]
  <2>1. CASE more
    <3>1. \A i \in 1..PageLimit : list[i] \in Rows
      BY <1>2, <1>3, <2>1, ElementOfSeq
    <3>2. /\ SubSeq(list, 1, PageLimit) \in Seq(Rows) /\ Len(SubSeq(list, 1, PageLimit)) = PageLimit
          /\ \A i \in 1..PageLimit : SubSeq(list, 1, PageLimit)[i] = list[i]
      BY <1>3, <3>1, SubSeqProperties
    <3>3. QED
      BY <2>1, <3>2
  <2>2. CASE ~more
    BY <1>2, <2>2
  <2>3. QED
    BY <2>1, <2>2
<1>6. /\ kept \in Seq(Shown) /\ Len(kept) = Len(page)
      /\ \A n \in 1..Len(page) : kept[n].row = page[n] /\ kept[n].key = table[page[n]].key
  <2> HIDE DEF page
  <2>1. page \in Seq(Rows)
    BY <1>5
  <2>2. QED
    BY <2>1, KeptIsShown
<1>7. /\ shown' = shown \o kept
      /\ cursor' = IF more THEN NextCursor(list) ELSE cursor
      /\ step' = IF more /\ ~Overlaps(kept) THEN "ask" ELSE "done"
  BY <1>1
<1> DEFINE k == Len(kept)
<1>8. /\ k = IF more THEN PageLimit ELSE Len(list)
      /\ k \in Nat /\ k <= Len(list)
      /\ \A n \in 1..k : kept[n].row = list[n] /\ kept[n].key = table[list[n]].key
      /\ \A n \in 1..k : list[n] \in S
  <2> HIDE DEF page, kept, S
  <2>1. /\ k = IF more THEN PageLimit ELSE Len(list)
        /\ k \in Nat /\ k <= Len(list)
    BY <1>2, <1>3, <1>5, <1>6
  <2>2. \A n \in 1..k : n \in 1..Len(list) /\ n \in 1..Len(page)
    BY <1>2, <1>6, <2>1
  <2>3. \A n \in 1..k : kept[n].row = list[n] /\ kept[n].key = table[list[n]].key
    BY <1>5, <1>6, <2>2
  <2>4. \A n \in 1..k : list[n] \in S
    BY <1>2, <2>2
  <2>5. QED
    BY <2>1, <2>3, <2>4
<1> HIDE DEF page, kept, k
<1>9. \A m, n \in 1..k : m < n => kept[m].key > kept[n].key
  BY <1>2, <1>8
<1>10. \A n \in 1..k : kept[n].key # 0 /\ (cursor = 0 \/ kept[n].key < cursor)
  BY <1>8 DEF There
<1>11. ASSUME ~more, NEW r \in sel
       PROVE  (cursor # 0 /\ table[r].key >= cursor) \/ \E n \in 1..k : kept[n].row = r
  <2>0. cursor \in Nat /\ table[r].key \in Nat
    BY <1>4 DEF ReadTypes
  <2>1. CASE r \in S
    <3>1. r \in Range(list)
      BY <1>2, <1>3, <1>11, <2>1
    <3>2. PICK i \in 1..Len(list) : list[i] = r
      BY <1>2, <3>1, AtSomePlace
    <3>3. QED
      BY <1>8, <1>11, <3>2
  <2>2. CASE r \notin S
    BY <2>0, <2>2
  <2>3. QED
    BY <2>1, <2>2
<1>12. ASSUME more, NEW r \in sel, table[r].key >= table[list[PageLimit]].key
       PROVE  (cursor # 0 /\ table[r].key >= cursor) \/ \E n \in 1..k : kept[n].row = r
  <2>0. cursor \in Nat /\ table[r].key \in Nat
    BY <1>4 DEF ReadTypes
  <2>1. CASE r \in S
    <3>0. PageLimit \in 1..Len(list) /\ Len(list) = PageLimit + 1
      BY <1>2, <1>3, <1>12
    <3>1. list[PageLimit] \in Rows
      BY <1>2, <3>0, ElementOfSeq
    <3>2. r \in Range(list)
      BY <1>2, <1>4, <1>12, <2>1, <3>0, <3>1
    <3>3. PICK i \in 1..Len(list) : list[i] = r
      BY <1>2, <3>2, AtSomePlace
    <3>4. i <= PageLimit
      BY <1>2, <1>4, <1>12, <3>0, <3>1, <3>3
    <3>5. QED
      BY <1>8, <1>12, <3>3, <3>4
  <2>2. CASE r \notin S
    BY <2>0, <2>2
  <2>3. QED
    BY <2>1, <2>2
<1>13. more => /\ cursor' = table[list[PageLimit]].key /\ cursor' = kept[k].key /\ k > 0
               /\ cursor' \in Nat
  <2> SUFFICES ASSUME more PROVE cursor' = table[list[PageLimit]].key
                                 /\ cursor' = kept[k].key /\ k > 0 /\ cursor' \in Nat
    OBVIOUS
  <2>1. k = PageLimit /\ k \in 1..k /\ PageLimit \in 1..Len(list)
    BY <1>3, <1>8
  <2>2. NextCursor(list) = table[list[PageLimit]].key
    BY DEF NextCursor
  <2>3. list[PageLimit] \in Rows
    BY <1>2, <2>1, ElementOfSeq
  <2>4. QED
    BY <1>3, <1>4, <1>7, <1>8, <2>1, <2>2, <2>3
<1>14. ASSUME step' = "ask"
       PROVE  /\ cursor' = kept[k].key /\ k > 0
              /\ \A r \in sel :
                   table[r].key >= cursor' =>
                     \/ cursor # 0 /\ table[r].key >= cursor
                     \/ \E n \in 1..k : kept[n].row = r
  <2>1. more
    BY <1>7, <1>14
  <2>2. QED
    BY <1>12, <1>13, <2>1
<1>15. ASSUME step' = "done", NEW r \in sel, Owed(r)
       PROVE  (cursor # 0 /\ table[r].key >= cursor) \/ \E n \in 1..k : kept[n].row = r
  <2>1. CASE ~more
    BY <1>11, <2>1
  <2>2. CASE more
    <3>1. Overlaps(kept)
      BY <1>7, <1>15, <2>2
    <3>2. DOMAIN kept = 1..k
      BY <1>6, LenProperties DEF k
    <3>3. walk.baseline \in Nat
      BY PagedReadsAssumption DEF ReadTypes
    <3>4. PICK n \in 1..k : kept[n].key <= walk.baseline
      BY <1>15, <3>1, <3>2, <3>3 DEF Overlaps, Owed
    <3>5. table[r].key > walk.baseline
      BY <1>15, <3>1 DEF Owed, Overlaps
    <3>6. k = PageLimit /\ kept[PageLimit].key <= kept[n].key /\ k \in 1..k
          /\ kept[n].key \in Nat /\ kept[k].key \in Nat
      <4>1. k = PageLimit /\ k \in 1..k
        BY <1>3, <1>8, <2>2
      <4>2. kept[n].key \in Nat /\ kept[k].key \in Nat
        <5>1. list[n] \in Rows /\ list[k] \in Rows
          BY <1>8, <4>1 DEF ReadTypes
        <5>2. QED
          BY <1>4, <1>8, <4>1, <5>1
      <4>3. n = k \/ n < k
        BY <1>3, <4>1
      <4>4. QED
        BY <1>9, <4>1, <4>2, <4>3
    <3>7. table[r].key \in Nat /\ table[list[PageLimit]].key = kept[PageLimit].key
      BY <1>4, <1>8, <3>6
    <3>8. table[r].key >= table[list[PageLimit]].key
      BY <3>3, <3>4, <3>5, <3>6, <3>7
    <3>9. QED
      BY <1>12, <2>2, <3>8
  <2>3. QED
    BY <2>1, <2>2
<1>16. step' \in {"ask", "done"} /\ cursor' \in Nat
  BY <1>7, <1>13 DEF ReadTypes
<1>17. QED
  BY <1>6, <1>7, <1>9, <1>10, <1>14, <1>15, <1>16 DEF k

\* What a query of any endpoint selects is there.
LEMMA SelectedThere ==
  ASSUME NEW r, NEW asker, Selected(r, asker)
  PROVE  There(r)
BY DEF Selected, TaskRow, PostRow

LEMMA PageKeepsInv ==
  ASSUME ReadTypes, walk.endpoint # "replay", step \in {"fetch", "legacy"},
         SteadyIsListed, ShownToCursor,
         NEW sel \in SUBSET Rows, \A r \in sel : There(r), steady \subseteq sel,
         TurnPage(sel)
  PROVE  ReadTypes' /\ SteadyIsListed' /\ ShownToCursor'
<1>1. PICK kept \in Seq(Shown) :
           /\ shown' = shown \o kept
           /\ \A m, n \in 1..Len(kept) : m < n => kept[m].key > kept[n].key
           /\ \A n \in 1..Len(kept) :
                kept[n].key # 0 /\ (cursor = 0 \/ kept[n].key < cursor)
           /\ step' = "ask" =>
                /\ cursor' = kept[Len(kept)].key /\ Len(kept) > 0
                /\ \A r \in sel :
                     table[r].key >= cursor' =>
                       \/ cursor # 0 /\ table[r].key >= cursor
                       \/ \E n \in 1..Len(kept) : kept[n].row = r
           /\ step' = "done" =>
                \A r \in sel :
                  Owed(r) =>
                    \/ cursor # 0 /\ table[r].key >= cursor
                    \/ \E n \in 1..Len(kept) : kept[n].row = r
           /\ step' \in {"ask", "done"} /\ cursor' \in Nat
  BY PageIs
<1>2. UNCHANGED <<walk, table, standing, readAs, steady>>
  BY DEF TurnPage
<1>3. /\ shown \in Seq(Shown) /\ Len(shown) \in Nat /\ DOMAIN shown = 1..Len(shown)
      /\ Len(kept) \in Nat /\ cursor \in Nat
  BY LenProperties DEF ReadTypes
<1>4. /\ shown \o kept \in Seq(Shown) /\ Len(shown \o kept) = Len(shown) + Len(kept)
      /\ \A i \in 1..Len(shown) + Len(kept) : (shown \o kept)[i] =
           IF i <= Len(shown) THEN shown[i] ELSE kept[i - Len(shown)]
  BY <1>3, ConcatProperties
<1>5. DOMAIN shown' = 1..Len(shown \o kept) /\ Len(shown') = Len(shown) + Len(kept)
  BY <1>1, <1>4, LenProperties
<1>6. ReadTypes'
  BY <1>1, <1>2, <1>4 DEF ReadTypes
<1>7. SteadyIsListed'
  BY <1>1, <1>2 DEF SteadyIsListed, Selected, TaskRow, PostRow, There
<1>8. \A m, n \in DOMAIN shown' : m < n => shown'[m].key > shown'[n].key
  <2>1. /\ \A m, n \in 1..Len(shown) : m < n => shown[m].key > shown[n].key
        /\ \A n \in 1..Len(shown) : cursor # 0 /\ shown[n].key >= cursor
    BY <1>3 DEF ShownToCursor
  <2>2. \A m, n \in 1..Len(shown \o kept) :
          m < n => (shown \o kept)[m].key > (shown \o kept)[n].key
    BY <1>1, <1>3, <2>1, DescendOn
  <2>3. QED
    BY <1>1, <1>5, <2>2
<1>9. ASSUME NEW r, HasShown(r) \/ \E n \in 1..Len(kept) : kept[n].row = r
      PROVE  \E n \in DOMAIN shown' : shown'[n].row = r
  <2>1. CASE HasShown(r)
    <3>1. PICK n \in 1..Len(shown) : shown[n].row = r
      BY <1>3, <2>1 DEF HasShown
    <3>2. n \in DOMAIN shown' /\ shown'[n] = shown[n]
      BY <1>1, <1>3, <1>4, <1>5
    <3>3. QED
      BY <3>1, <3>2
  <2>2. CASE \E n \in 1..Len(kept) : kept[n].row = r
    <3>1. PICK n \in 1..Len(kept) : kept[n].row = r
      BY <2>2
    <3>2. Len(shown) + n \in DOMAIN shown' /\ shown'[Len(shown) + n] = kept[n]
      BY <1>1, <1>3, <1>4, <1>5
    <3>3. QED
      BY <3>1, <3>2
  <2>3. QED
    BY <1>9, <2>1, <2>2
<1>10. \A r \in steady : cursor # 0 /\ table[r].key >= cursor => HasShown(r)
  BY DEF ShownToCursor
<1>11. ASSUME step' = "ask", NEW n \in DOMAIN shown'
       PROVE  cursor' # 0 /\ shown'[n].key >= cursor'
  <2>1. Len(kept) > 0 /\ Len(kept) \in 1..Len(kept) /\ cursor' = kept[Len(kept)].key
    BY <1>1, <1>3, <1>11
  <2>2. Len(shown') \in DOMAIN shown' /\ shown'[Len(shown')] = kept[Len(kept)]
        /\ n \in 1..Len(shown') /\ Len(shown') \in Nat
    BY <1>1, <1>3, <1>4, <1>5, <2>1
  <2>3. shown'[n].key >= shown'[Len(shown')].key
    <3>1. CASE n = Len(shown')
      <4>1. shown'[n].key \in Nat
        BY <1>1, <1>11, <2>1, <2>2, <3>1
      <4>2. QED
        BY <3>1, <4>1
    <3>2. CASE n < Len(shown')
      <4>1. shown'[n].key > shown'[Len(shown')].key
        BY <1>8, <2>2, <3>2
      <4>2. shown'[n] \in Shown /\ shown'[Len(shown')] \in Shown
        BY <1>1, <1>4, <2>2, ElementOfSeq
      <4>3. shown'[n].key \in Nat /\ shown'[Len(shown')].key \in Nat
        BY <4>2 DEF Shown
      <4>4. QED
        BY <4>1, <4>3
    <3>3. QED
      BY <2>2, <3>1, <3>2
  <2>4. QED
    BY <1>1, <2>1, <2>2, <2>3
<1>12. ASSUME step' = "ask", NEW r \in steady, table[r].key >= cursor'
       PROVE  \E n \in DOMAIN shown' : shown'[n].row = r
  <2>1. (cursor # 0 /\ table[r].key >= cursor) \/ \E n \in 1..Len(kept) : kept[n].row = r
    BY <1>1, <1>12
  <2>2. QED
    BY <1>9, <1>10, <2>1
<1>13. ASSUME step' = "done", NEW r \in steady, Owed(r)
       PROVE  \E n \in DOMAIN shown' : shown'[n].row = r
  <2>1. (cursor # 0 /\ table[r].key >= cursor) \/ \E n \in 1..Len(kept) : kept[n].row = r
    BY <1>1, <1>13
  <2>2. QED
    BY <1>9, <1>10, <2>1
<1>14. ShownToCursor'
  BY <1>1, <1>2, <1>8, <1>11, <1>12, <1>13 DEF ShownToCursor, HasShown, Owed
<1>15. QED
  BY <1>6, <1>7, <1>14

\* What is steady is among the rows that a query of the request selects.
LEMMA ReadStepKeepsInv ==
  ASSUME ReadTypes, walk.endpoint # "replay", SteadyIsListed, ShownToCursor, ReadStep
  PROVE  ReadTypes' /\ SteadyIsListed' /\ ShownToCursor'
<1>1. \A r \in steady : r \in Rows /\ There(r)
  BY SelectedThere DEF SteadyIsListed, ReadTypes
<1>2. ASSUME NEW endpoint, NEW allowed, Admit(endpoint, allowed)
      PROVE  ReadTypes' /\ SteadyIsListed' /\ ShownToCursor'
  <2>1. /\ step = "ask" /\ readAs' = standing /\ step' \in {"fetch", "refused"}
        /\ UNCHANGED <<walk, table, standing, cursor, shown, steady>>
    BY <1>2 DEF Admit
  <2>2. ReadTypes'
    BY <2>1 DEF ReadTypes
  <2>3. SteadyIsListed'
    BY <2>1 DEF SteadyIsListed, Selected, TaskRow, PostRow, There
  <2>4. ShownToCursor'
    BY <2>1 DEF ShownToCursor, HasShown
  <2>5. QED
    BY <2>2, <2>3, <2>4
<1>3. CASE AskHistory \/ AskTasks \/ AskSubmissions \/ AskPosts
  BY <1>2, <1>3 DEF AskHistory, AskTasks, AskSubmissions, AskPosts
<1>4. CASE GetHistory
  <2>1. CASE walk.oldSchema
    <3>1. /\ step = "fetch" /\ step' = "legacy"
          /\ UNCHANGED <<walk, table, standing, readAs, cursor, shown, steady>>
      BY <1>4, <2>1 DEF GetHistory
    <3>2. ReadTypes'
      BY <3>1 DEF ReadTypes
    <3>3. SteadyIsListed'
      BY <3>1 DEF SteadyIsListed, Selected, TaskRow, PostRow, There
    <3>4. ShownToCursor'
      BY <3>1 DEF ShownToCursor, HasShown
    <3>5. QED
      BY <3>2, <3>3, <3>4
  <2>2. CASE ~walk.oldSchema
    BY <1>1, <1>4, <2>2, PageKeepsInv DEF GetHistory
  <2>3. QED
    BY <2>1, <2>2
<1>5. CASE GetHistoryLegacy
  BY <1>1, <1>5, PageKeepsInv DEF GetHistoryLegacy
<1>6. CASE ListTasks
  <2>1. \A r \in steady : TaskRow(r, readAs)
    BY <1>6 DEF ListTasks, SteadyIsListed, Selected
  <2>2. steady \subseteq {r \in Rows : TaskRow(r, readAs)}
    BY <1>1, <2>1
  <2>3. \A r \in {q \in Rows : TaskRow(q, readAs)} : There(r)
    BY DEF TaskRow
  <2>4. step \in {"fetch", "legacy"} /\ TurnPage({r \in Rows : TaskRow(r, readAs)})
    BY <1>6 DEF ListTasks
  <2>5. QED
    BY <2>2, <2>3, <2>4, PageKeepsInv
<1>7. CASE ListSubmissions
  BY <1>1, <1>7, PageKeepsInv DEF ListSubmissions
<1>8. CASE Posts
  <2>1. \A r \in steady : PostRow(r)
    BY <1>8 DEF Posts, SteadyIsListed, Selected
  <2>2. steady \subseteq {r \in Rows : PostRow(r)}
    BY <1>1, <2>1
  <2>3. \A r \in {q \in Rows : PostRow(q)} : There(r)
    BY DEF PostRow
  <2>4. step \in {"fetch", "legacy"} /\ TurnPage({r \in Rows : PostRow(r)})
    BY <1>8 DEF Posts
  <2>5. QED
    BY <2>2, <2>3, <2>4, PageKeepsInv
<1>9. QED
  BY <1>3, <1>4, <1>5, <1>6, <1>7, <1>8 DEF ReadStep

(* What others do: the table keeps its type, a row that is there keeps its *)
(* status unless it is a post or a task that is published.                 *)
LEMMA MovesAre ==
  ASSUME ReadTypes, OthersMove
  PROVE  /\ Moved
         /\ table' \in [Rows -> TableRow] /\ standing' \in Standing
         /\ walk.endpoint = "tasks" =>
              \A r \in Rows : There(r) => table'[r].status \in {table[r].status, "published"}
<1> USE DEF ReadTypes
<1>0. MaxKey \in Nat /\ MaxKey > 0
  BY PagedReadsAssumption
<1>1. CASE StandingChanges
  <2>1. Moved /\ table' = table /\ standing' \in Standing
    BY <1>1 DEF StandingChanges
  <2>2. QED
    BY <2>1
<1>2. ASSUME NEW r \in Rows, NEW row \in TableRow, table' = [table EXCEPT ![r] = row],
             Moved, UNCHANGED standing,
             walk.endpoint = "tasks" /\ There(r) => row.status \in {table[r].status, "published"}
      PROVE  /\ Moved
             /\ table' \in [Rows -> TableRow] /\ standing' \in Standing
             /\ walk.endpoint = "tasks" =>
                  \A q \in Rows : There(q) => table'[q].status \in {table[q].status, "published"}
  BY <1>2
<1>3. ASSUME NEW r \in Rows, RowAppears(r)
      PROVE  \E row \in TableRow :
               /\ table' = [table EXCEPT ![r] = row]
               /\ walk.endpoint = "tasks" /\ There(r) => row.status \in {table[r].status, "published"}
  <2>1. PICK k \in 1..MaxKey : table' = [table EXCEPT ![r] = [key |-> k, status |-> Fresh]]
    BY <1>3 DEF RowAppears
  <2>2. Fresh \in Statuses
    BY DEF Fresh, Statuses
  <2>3. k \in Keys
    BY <1>0 DEF Keys
  <2>4. [key |-> k, status |-> Fresh] \in TableRow
    BY <2>2, <2>3 DEF TableRow
  <2>5. QED
    BY <1>3, <2>1, <2>4 DEF RowAppears
<1>4. ASSUME NEW r \in Rows
      PROVE  /\ \A k \in Keys :
                  /\ [table[r] EXCEPT !.key = k] \in TableRow
                  /\ [table[r] EXCEPT !.key = k].status = table[r].status
             /\ \A s \in Statuses :
                  /\ [table[r] EXCEPT !.status = s] \in TableRow
                  /\ [table[r] EXCEPT !.status = s].status = s
  <2>1. table[r] \in TableRow
    OBVIOUS
  <2>2. QED
    BY <2>1 DEF TableRow
<1>5. ASSUME NEW r \in Rows, HandedInAgain(r)
      PROVE  \E row \in TableRow :
               /\ table' = [table EXCEPT ![r] = row]
               /\ walk.endpoint = "tasks" /\ There(r) => row.status \in {table[r].status, "published"}
  <2>1. PICK k \in 1..MaxKey : table' = [table EXCEPT ![r] = [@ EXCEPT !.key = k]]
    BY <1>5 DEF HandedInAgain
  <2>2. k \in Keys
    BY <1>0 DEF Keys
  <2>3. [table[r] EXCEPT !.key = k] \in TableRow
    BY <1>4, <2>2
  <2>4. table' = [table EXCEPT ![r] = [table[r] EXCEPT !.key = k]]
    BY <2>1
  <2>5. QED
    BY <1>5, <2>3, <2>4 DEF HandedInAgain
<1>6. ASSUME NEW r \in Rows, PostEdited(r)
      PROVE  \E row \in TableRow :
               /\ table' = [table EXCEPT ![r] = row]
               /\ walk.endpoint = "tasks" /\ There(r) => row.status \in {table[r].status, "published"}
  <2>1. CASE table' = [table EXCEPT ![r] = [@ EXCEPT !.key = Pinned(table[r].key)]]
    <3>1. table[r] \in TableRow /\ There(r)
      BY <1>6 DEF PostEdited
    <3>2. table[r].key \in Keys
      BY <3>1 DEF TableRow, There
    <3>3. Pinned(table[r].key) \in Keys
      BY <1>0, <3>2 DEF Keys, Pinned
    <3>4. [table[r] EXCEPT !.key = Pinned(table[r].key)] \in TableRow
      BY <1>4, <3>3
    <3>5. table' = [table EXCEPT ![r] = [table[r] EXCEPT !.key = Pinned(table[r].key)]]
      BY <2>1
    <3>6. QED
      BY <1>6, <3>4, <3>5 DEF PostEdited
  <2>2. CASE \E s \in Statuses : table' = [table EXCEPT ![r] = [@ EXCEPT !.status = s]]
    <3>1. PICK s \in Statuses : table' = [table EXCEPT ![r] = [@ EXCEPT !.status = s]]
      BY <2>2
    <3>2. [table[r] EXCEPT !.status = s] \in TableRow
      BY <1>4
    <3>3. table' = [table EXCEPT ![r] = [table[r] EXCEPT !.status = s]]
      BY <3>1
    <3>4. QED
      BY <1>6, <3>2, <3>3 DEF PostEdited
  <2>3. QED
    <3>0. "published" \in Statuses /\ "hidden" \in Statuses /\ "deleted" \in Statuses
      BY DEF Statuses
    <3>1. CASE \E s \in {"published", "hidden", "deleted"} :
               /\ table[r].status \notin {s, "deleted"}
               /\ table' = [table EXCEPT ![r] = [@ EXCEPT !.status = s]]
      BY <2>2, <3>0, <3>1
    <3>2. QED
      BY <1>6, <2>1, <3>1 DEF PostEdited
<1>7. ASSUME NEW r \in Rows, TaskPublished(r)
      PROVE  \E row \in TableRow :
               /\ table' = [table EXCEPT ![r] = row]
               /\ walk.endpoint = "tasks" /\ There(r) => row.status \in {table[r].status, "published"}
  <2>1. table' = [table EXCEPT ![r] = [table[r] EXCEPT !.status = "published"]]
    BY <1>7 DEF TaskPublished
  <2>2. "published" \in Statuses
    BY DEF Statuses
  <2>3. [table[r] EXCEPT !.status = "published"] \in TableRow
        /\ [table[r] EXCEPT !.status = "published"].status = "published"
    BY <1>4, <2>2
  <2>4. QED
    BY <2>1, <2>3
<1>8. ASSUME NEW r \in Rows,
             RowAppears(r) \/ HandedInAgain(r) \/ PostEdited(r) \/ TaskPublished(r)
      PROVE  Moved /\ UNCHANGED standing
  BY <1>8 DEF RowAppears, HandedInAgain, PostEdited, TaskPublished
<1>9. QED
  BY <1>1, <1>2, <1>3, <1>5, <1>6, <1>7, <1>8 DEF OthersMove

LEMMA MoveKeepsWalk ==
  ASSUME ReadTypes, walk.endpoint # "replay", SteadyIsListed, ShownToCursor, OthersMove
  PROVE  ReadTypes' /\ SteadyIsListed' /\ ShownToCursor'
<1>1. /\ Moved
      /\ table' \in [Rows -> TableRow] /\ standing' \in Standing
      /\ walk.endpoint = "tasks" =>
           \A r \in Rows : There(r) => table'[r].status \in {table[r].status, "published"}
  BY MovesAre
<1>2. /\ step # "done" /\ UNCHANGED <<walk, step, readAs, cursor, shown>>
      /\ steady' = {r \in steady : Selected(r, standing)' /\ table'[r].key = table[r].key}
  BY <1>1 DEF Moved
<1>3. ReadTypes'
  BY <1>1, <1>2 DEF ReadTypes
<1>4. \A r \in steady' : Selected(r, standing)' /\ table'[r].key = table[r].key
                         /\ r \in steady
  BY <1>2
<1>5. ASSUME step \in {"fetch", "legacy"}, NEW r \in steady'
      PROVE  Selected(r, readAs)'
  <2>1. Selected(r, standing)' /\ Selected(r, readAs) /\ r \in Rows
    BY <1>4, <1>5 DEF SteadyIsListed, ReadTypes
  <2>2. There(r) /\ walk' = walk /\ readAs' = readAs
    BY <1>2, <2>1, SelectedThere
  <2>3. CASE walk.endpoint = "tasks"
    <3>1. There(r)' /\ TaskRow(r, readAs)
      BY <2>1, <2>2, <2>3 DEF Selected, TaskRow
    <3>2. table'[r].status \in {table[r].status, "published"}
      BY <1>1, <2>1, <2>2, <2>3
    <3>3. TaskRow(r, readAs)'
      BY <2>2, <3>1, <3>2 DEF TaskRow
    <3>4. QED
      BY <2>2, <2>3, <3>3 DEF Selected
  <2>4. CASE walk.endpoint # "tasks"
    BY <2>1, <2>2, <2>4 DEF Selected
  <2>5. QED
    BY <2>3, <2>4
<1>6. SteadyIsListed'
  BY <1>2, <1>4, <1>5 DEF SteadyIsListed
<1>7. ShownToCursor'
  BY <1>2, <1>4 DEF ShownToCursor, HasShown
<1>8. QED
  BY <1>3, <1>6, <1>7

-----------------------------------------------------------------------------
(* The replay: one message is sent.                                        *)
LEMMA SendKeepsOnce ==
  ASSUME ReadTypes, ReplayTypes, NEW r \in Rows, r \notin replayed, Send(r),
         replayed = {shown[n].row : n \in DOMAIN shown},
         \A m, n \in DOMAIN shown : m # n => shown[m].row # shown[n].row
  PROVE  /\ shown' \in Seq(Shown) /\ replayed' \subseteq Rows
         /\ replayed' = replayed \cup {r}
         /\ replayed' = {shown'[n].row : n \in DOMAIN shown'}
         /\ \A m, n \in DOMAIN shown' : m # n => shown'[m].row # shown'[n].row
<1> DEFINE s == [row |-> r, key |-> table[r].key]
<1>1. s \in Shown /\ s.row = r
  BY RowHasKey DEF ReadTypes, Shown
<1>2. shown' = Append(shown, s) /\ replayed' = replayed \cup {r}
  BY DEF Send
<1> HIDE DEF s
<1>3. /\ shown \in Seq(Shown) /\ Len(shown) \in Nat /\ DOMAIN shown = 1..Len(shown)
  BY LenProperties DEF ReadTypes
<1>4. /\ shown' \in Seq(Shown) /\ Len(shown') = Len(shown) + 1
      /\ \A i \in 1..Len(shown) : shown'[i] = shown[i]
      /\ shown'[Len(shown) + 1] = s
  BY <1>1, <1>2, <1>3, AppendProperties
<1>5. DOMAIN shown' = 1..(Len(shown) + 1)
  BY <1>4, LenProperties
<1>6. \A n \in DOMAIN shown' : n \in DOMAIN shown \/ n = Len(shown) + 1
  BY <1>3, <1>5
<1>7. \A n \in DOMAIN shown : n \in DOMAIN shown' /\ shown[n].row \in replayed
                              /\ shown'[n].row = shown[n].row
  BY <1>3, <1>4, <1>5
<1>8. Len(shown) + 1 \in DOMAIN shown' /\ shown'[Len(shown) + 1].row = r
  BY <1>1, <1>3, <1>4, <1>5
<1>9. \A m, n \in DOMAIN shown' : m # n => shown'[m].row # shown'[n].row
  BY <1>6, <1>7, <1>8
<1>10. replayed' = {shown'[n].row : n \in DOMAIN shown'}
  <2>1. ASSUME NEW x \in replayed' PROVE \E n \in DOMAIN shown' : x = shown'[n].row
    BY <1>2, <1>7, <1>8
  <2>2. ASSUME NEW n \in DOMAIN shown' PROVE shown'[n].row \in replayed'
    BY <1>2, <1>6, <1>7, <1>8
  <2>3. QED
    BY <2>1, <2>2
<1>11. QED
  BY <1>2, <1>4, <1>9, <1>10 DEF ReplayTypes

(* The rest of a list that is not empty.                                   *)
LEMMA RestOfList ==
  ASSUME NEW list \in Seq(Rows), list # <<>>
  PROVE  /\ Head(list) \in Rows /\ Head(list) = list[1] /\ 1 \in DOMAIN list
         /\ Tail(list) \in Seq(Rows)
         /\ \A i \in DOMAIN Tail(list) : i + 1 \in DOMAIN list /\ Tail(list)[i] = list[i + 1]
                                         /\ i \in Nat /\ i + 1 # 1
         /\ \A r \in Range(list) : r = Head(list) \/ r \in Range(Tail(list))
<1>1. /\ Len(list) \in Nat \ {0} /\ DOMAIN list = 1..Len(list)
  BY EmptySeq, LenProperties
<1>2. /\ Head(list) \in Rows /\ Tail(list) \in Seq(Rows)
      /\ Len(Tail(list)) = Len(list) - 1
      /\ \A i \in 1..Len(Tail(list)) : Tail(list)[i] = list[i + 1]
  BY HeadTailProperties
<1>3. DOMAIN Tail(list) = 1..(Len(list) - 1)
  BY <1>2, LenProperties
<1>4. Head(list) = list[1]
  OBVIOUS
<1>5. ASSUME NEW r \in Range(list), r # Head(list)
      PROVE  r \in Range(Tail(list))
  <2>1. PICK i \in 1..Len(list) : list[i] = r
    BY <1>1, AtSomePlace
  <2>2. i # 1
    BY <1>4, <1>5, <2>1
  <2>3. i - 1 \in DOMAIN Tail(list) /\ Tail(list)[i - 1] = r
    BY <1>1, <1>2, <1>3, <2>1, <2>2
  <2>4. QED
    BY <2>3 DEF Range
<1>6. QED
  BY <1>1, <1>2, <1>3, <1>4, <1>5

LEMMA EmptyList == <<>> \in Seq(Rows) /\ Range(<<>>) = {}
<1>1. <<>> \in Seq(Rows) /\ Len(<<>>) = 0
  BY EmptySeq
<1>2. DOMAIN <<>> = 1..0
  BY <1>1, LenProperties
<1>3. QED
  BY <1>1, <1>2 DEF Range

\* pending_ack is listed with every entry once.
LEMMA ListedOnce ==
  ASSUME NEW S \in SUBSET Rows, NEW list \in SetToSeqs(S)
  PROVE  list \in Seq(Rows) /\ \A i, j \in DOMAIN list : i # j => list[i] # list[j]
<1>1. IsFiniteSet(S)
  BY PagedReadsAssumption, FS_Subset
<1>2. Cardinality(S) \in Nat
  BY <1>1, FS_CardinalityType
<1>3. list \in [1..Cardinality(S) -> S]
      /\ \A i, j \in 1..Cardinality(S) : i # j => list[i] # list[j]
  BY DEF SetToSeqs
<1>4. list \in Seq(S)
  BY <1>2, <1>3, SeqDef
<1>5. QED
  BY <1>3, <1>4, SeqMonotonic

\* A step before the first batch leaves the rows up to the cursor sent.
LEMMA BeforeBatches ==
  ASSUME SentToCursor, step \notin {"batch", "failed"}, step' \notin {"batch", "done"},
         UNCHANGED <<walk, table, steady, cursor>>, replayed \subseteq replayed'
  PROVE  SentToCursor'
BY DEF SentToCursor, There

\* Nothing is sent.
LEMMA NothingSent ==
  ASSUME ReplayedOnce, UNCHANGED <<shown, replayed>>, step' \notin {"ask", "pending"}
  PROVE  ReplayedOnce'
BY DEF ReplayedOnce

LEMMA ListPendingKeepsInv ==
  ASSUME ReadTypes, ReplayTypes, walk.endpoint = "replay", ReplayedOnce, SentToCursor,
         ListPending
  PROVE  ReadTypes' /\ ReplayTypes' /\ ReplayedOnce' /\ SentToCursor'
<1>1. /\ step = "ask" /\ UNCHANGED <<Others, cursor, full, count>>
  BY DEF ListPending
<1>2. PICK list \in Seq(Rows) :
        /\ StartList(list, "pending")
        /\ \A i, j \in DOMAIN list : i # j => list[i] # list[j]
  <2>1. CASE StartList(<<>>, "pending")
    <3>1. DOMAIN <<>> = {}
      BY EmptyList DEF Range
    <3>2. QED
      BY <2>1, <3>1, EmptyList
  <2>2. CASE \E list \in SetToSeqs(pending \cup ghosts) : StartList(list, "pending")
    <3>1. pending \cup ghosts \in SUBSET Rows
      BY DEF ReplayTypes
    <3>2. QED
      BY <2>2, <3>1, ListedOnce
  <2>3. QED
    BY <2>1, <2>2 DEF ListPending
<1>3. todo' = list /\ step' = "pending" /\ UNCHANGED <<shown, replayed>>
  BY <1>2 DEF StartList
<1>4. ReadTypes'
  BY <1>1, <1>3 DEF ReadTypes, Others
<1>5. ReplayTypes'
  BY <1>1, <1>3 DEF ReplayTypes, Others, redisVars
<1>6. ReplayedOnce'
  <2>1. /\ replayed = {} /\ replayed = {shown[n].row : n \in DOMAIN shown}
        /\ \A m, n \in DOMAIN shown : m # n => shown[m].row # shown[n].row
    BY <1>1 DEF ReplayedOnce
  <2>2. /\ replayed' = {} /\ replayed' = {shown'[n].row : n \in DOMAIN shown'}
        /\ \A m, n \in DOMAIN shown' : m # n => shown'[m].row # shown'[n].row
    <3>1. shown' = shown /\ replayed' = replayed
      BY <1>3
    <3>2. QED
      BY ONLY <2>1, <3>1, Zenon
  <2>3. /\ \A i, j \in DOMAIN todo' : i # j => todo'[i] # todo'[j]
        /\ \A i \in DOMAIN todo' : todo'[i] \notin replayed'
    BY <1>2, <1>3, <2>2
  <2>4. QED
    BY <2>2, <2>3 DEF ReplayedOnce
<1>7. SentToCursor'
  BY <1>1, <1>3, BeforeBatches DEF Others
<1>8. QED
  BY <1>4, <1>5, <1>6, <1>7

LEMMA ReplayPendingKeepsInv ==
  ASSUME ReadTypes, ReplayTypes, walk.endpoint = "replay", ReplayedOnce, SentToCursor,
         ReplayPending
  PROVE  ReadTypes' /\ ReplayTypes' /\ ReplayedOnce' /\ SentToCursor'
<1>1. /\ step = "pending" /\ UNCHANGED <<Others, cursor, full, count>>
  BY DEF ReplayPending
<1>2. CASE StartList(<<>>, "timeline") \/ WriteFails("timeline")
  <2>1. todo' = <<>> /\ step' = "timeline" /\ UNCHANGED <<shown, replayed>>
    BY <1>2 DEF StartList, WriteFails
  <2>2. ReadTypes'
    BY <1>1, <2>1 DEF ReadTypes, Others
  <2>3. ReplayTypes'
    BY <1>1, <2>1, EmptyList DEF ReplayTypes, Others, redisVars
  <2>4. ReplayedOnce'
    BY <2>1, NothingSent
  <2>5. SentToCursor'
    BY <1>1, <2>1, BeforeBatches DEF Others
  <2>6. QED
    BY <2>2, <2>3, <2>4, <2>5
<1>3. ASSUME todo # <<>>
      PROVE  /\ Head(todo) \in Rows /\ Head(todo) \notin replayed
             /\ Tail(todo) \in Seq(Rows)
             /\ \A i, j \in DOMAIN Tail(todo) : i # j => Tail(todo)[i] # Tail(todo)[j]
             /\ \A i \in DOMAIN Tail(todo) :
                  Tail(todo)[i] \notin replayed /\ Tail(todo)[i] # Head(todo)
  <2>1. /\ Head(todo) \in Rows /\ Head(todo) = todo[1] /\ 1 \in DOMAIN todo
        /\ Tail(todo) \in Seq(Rows)
        /\ \A i \in DOMAIN Tail(todo) : i + 1 \in DOMAIN todo /\ Tail(todo)[i] = todo[i + 1]
                                        /\ i \in Nat /\ i + 1 # 1
    BY <1>3, RestOfList DEF ReplayTypes
  <2>2. /\ \A i, j \in DOMAIN todo : i # j => todo[i] # todo[j]
        /\ \A i \in DOMAIN todo : todo[i] \notin replayed
    BY <1>1 DEF ReplayedOnce
  <2>3. \A i, j \in DOMAIN Tail(todo) : i # j => i + 1 # j + 1
    BY <2>1
  <2>4. QED
    BY <2>1, <2>2, <2>3
<1>4. CASE todo # <<>> /\ PassOver
  <2>1. todo' = Tail(todo) /\ UNCHANGED <<shown, replayed, step>>
    BY <1>4 DEF PassOver
  <2>2. ReadTypes'
    BY <1>1, <2>1 DEF ReadTypes, Others
  <2>3. ReplayTypes'
    BY <1>1, <1>3, <1>4, <2>1 DEF ReplayTypes, Others, redisVars
  <2>4. ReplayedOnce'
    BY <1>1, <1>3, <1>4, <2>1 DEF ReplayedOnce
  <2>5. SentToCursor'
    BY <1>1, <2>1, BeforeBatches DEF Others
  <2>6. QED
    BY <2>2, <2>3, <2>4, <2>5
<1>5. CASE todo # <<>> /\ Send(Head(todo))
  <2>1. todo' = Tail(todo) /\ step' = step
    BY <1>5 DEF Send
  <2>2. /\ shown' \in Seq(Shown) /\ replayed' \subseteq Rows
        /\ replayed' = replayed \cup {Head(todo)}
        /\ replayed' = {shown'[n].row : n \in DOMAIN shown'}
        /\ \A m, n \in DOMAIN shown' : m # n => shown'[m].row # shown'[n].row
    <3>1. /\ replayed = {shown[n].row : n \in DOMAIN shown}
          /\ \A m, n \in DOMAIN shown : m # n => shown[m].row # shown[n].row
      BY DEF ReplayedOnce
    <3>2. QED
      BY <1>3, <1>5, <3>1, SendKeepsOnce
  <2>3. ReadTypes'
    BY <1>1, <2>1, <2>2 DEF ReadTypes, Others
  <2>4. ReplayTypes'
    BY <1>1, <1>3, <1>5, <2>1, <2>2 DEF ReplayTypes, Others, redisVars
  <2>5. ReplayedOnce'
    BY <1>1, <1>3, <1>5, <2>1, <2>2 DEF ReplayedOnce
  <2>6. SentToCursor'
    BY <1>1, <2>1, <2>2, BeforeBatches DEF Others
  <2>7. QED
    BY <2>3, <2>4, <2>5, <2>6
<1>6. QED
  BY <1>2, <1>4, <1>5 DEF ReplayPending

LEMMA TimelineKeepsInv ==
  ASSUME ReadTypes, ReplayTypes, walk.endpoint = "replay", ReplayedOnce, SentToCursor,
         ListTimeline \/ ReplayTimeline
  PROVE  ReadTypes' /\ ReplayTypes' /\ ReplayedOnce' /\ SentToCursor'
<1>1. /\ step \in {"timeline", "recent"} /\ UNCHANGED <<Others, cursor, full, count>>
  BY DEF ListTimeline, ReplayTimeline
<1>2. ASSUME NEW list \in Seq(Rows), NEW next \in {"recent", "query"},
             StartList(list, next)
      PROVE  ReadTypes' /\ ReplayTypes' /\ ReplayedOnce' /\ SentToCursor'
  <2>1. todo' = list /\ step' = next /\ UNCHANGED <<shown, replayed>>
    BY <1>2 DEF StartList
  <2>2. ReadTypes'
    BY <1>1, <2>1 DEF ReadTypes, Others
  <2>3. ReplayTypes'
    BY <1>1, <2>1 DEF ReplayTypes, Others, redisVars
  <2>4. ReplayedOnce'
    BY <2>1, NothingSent
  <2>5. SentToCursor'
    BY <1>1, <2>1, BeforeBatches DEF Others
  <2>6. QED
    BY <2>2, <2>3, <2>4, <2>5
<1>3. CASE ListTimeline
  <2>1. CASE StartList(<<>>, "recent")
    BY <1>2, <2>1, EmptyList
  <2>2. CASE \E list \in Oldest({r \in timeline : table[r].key > walk.baseline}, SyncBatch) :
               StartList(list, "recent")
    <3>1. {r \in timeline : table[r].key > walk.baseline} \in SUBSET Rows
      BY DEF ReplayTypes
    <3>2. PICK list \in Oldest({r \in timeline : table[r].key > walk.baseline}, SyncBatch) :
            StartList(list, "recent")
      BY <2>2
    <3>3. list \in Seq(Rows)
      BY <3>1, <3>2, OldestIs
    <3>4. QED
      BY <1>2, <3>2, <3>3
  <2>3. QED
    BY <1>3, <2>1, <2>2 DEF ListTimeline
<1>4. CASE ReplayTimeline /\ (StartList(<<>>, "query") \/ WriteFails("query"))
  BY <1>2, <1>4, EmptyList DEF StartList, WriteFails
<1>5. CASE ReplayTimeline /\ todo # <<>> /\ (PassOver \/ (NotReplayed(Head(todo)) /\ Send(Head(todo))))
  <2>1. todo' = Tail(todo) /\ step' = step /\ step = "recent"
    BY <1>5 DEF PassOver, Send, ReplayTimeline
  <2>2. Head(todo) \in Rows /\ Tail(todo) \in Seq(Rows)
    BY <1>5, RestOfList DEF ReplayTypes
  <2>3. /\ shown' \in Seq(Shown) /\ replayed' \subseteq Rows /\ replayed \subseteq replayed'
        /\ replayed' = {shown'[n].row : n \in DOMAIN shown'}
        /\ \A m, n \in DOMAIN shown' : m # n => shown'[m].row # shown'[n].row
    <3>1. /\ replayed = {shown[n].row : n \in DOMAIN shown}
          /\ \A m, n \in DOMAIN shown : m # n => shown[m].row # shown[n].row
      BY DEF ReplayedOnce
    <3>2. CASE PassOver
      BY <3>1, <3>2 DEF PassOver, ReadTypes, ReplayTypes
    <3>3. CASE Head(todo) \notin replayed /\ Send(Head(todo))
      BY <2>2, <3>1, <3>3, SendKeepsOnce
    <3>4. QED
      BY <1>5, <3>2, <3>3 DEF NotReplayed
  <2>4. ReadTypes'
    BY <1>1, <2>1, <2>3 DEF ReadTypes, Others
  <2>5. ReplayTypes'
    BY <1>1, <2>1, <2>2, <2>3 DEF ReplayTypes, Others, redisVars
  <2>6. ReplayedOnce'
    BY <2>1, <2>3 DEF ReplayedOnce
  <2>7. SentToCursor'
    BY <1>1, <2>1, <2>3, BeforeBatches DEF Others
  <2>8. QED
    BY <2>4, <2>5, <2>6, <2>7
<1>6. QED
  BY <1>3, <1>4, <1>5 DEF ReplayTimeline

(* A batch: the rows up to the new cursor were sent or are in it.          *)
LEMMA QueryBatchKeepsInv ==
  ASSUME ReadTypes, ReplayTypes, walk.endpoint = "replay", ReplayedOnce, SentToCursor,
         QueryBatch
  PROVE  ReadTypes' /\ ReplayTypes' /\ ReplayedOnce' /\ SentToCursor'
<1> DEFINE from == IF cursor = 0 THEN walk.baseline ELSE cursor
           S == {r \in Rows : table[r].key > from}
<1>1. /\ step = "query" /\ UNCHANGED <<Others, count>>
      /\ \/ \E chunk \in Oldest(S, SyncBatch) :
              /\ StartList(chunk, "batch")
              /\ cursor' = IF chunk = <<>> THEN from ELSE table[Last(chunk)].key
              /\ full' = (Len(chunk) = SyncBatch)
         \/ StartList(<<>>, "failed") /\ UNCHANGED <<cursor, full>>
  BY DEF QueryBatch
<1>2. walk.baseline \in Nat /\ cursor \in Nat /\ from \in Nat
  BY PagedReadsAssumption DEF ReadTypes
<1>3. CASE StartList(<<>>, "failed") /\ UNCHANGED <<cursor, full>>
  <2>1. todo' = <<>> /\ step' = "failed" /\ UNCHANGED <<shown, replayed>>
    BY <1>3 DEF StartList
  <2>2. ReadTypes'
    BY <1>1, <1>3, <2>1 DEF ReadTypes, Others
  <2>3. ReplayTypes'
    BY <1>1, <1>3, <2>1, EmptyList DEF ReplayTypes, Others, redisVars
  <2>4. ReplayedOnce'
    BY <2>1, NothingSent
  <2>5. SentToCursor'
    BY <1>1, <2>1 DEF SentToCursor, There, Others
  <2>6. QED
    BY <2>2, <2>3, <2>4, <2>5
<1>4. ASSUME NEW chunk \in Oldest(S, SyncBatch),
             StartList(chunk, "batch"),
             cursor' = IF chunk = <<>> THEN from ELSE table[Last(chunk)].key,
             full' = (Len(chunk) = SyncBatch)
      PROVE  ReadTypes' /\ ReplayTypes' /\ ReplayedOnce' /\ SentToCursor'
  <2>1. /\ chunk \in Seq(Rows) /\ Len(chunk) \in Nat /\ Len(chunk) <= SyncBatch
        /\ \A i \in 1..Len(chunk) : chunk[i] \in S
        /\ \A i, j \in 1..Len(chunk) : i < j => table[chunk[i]].key < table[chunk[j]].key
        /\ \A r \in S \ Range(chunk) :
             /\ Len(chunk) = SyncBatch
             /\ \A i \in 1..Len(chunk) : table[r].key > table[chunk[i]].key
    <3>1. S \in SUBSET Rows
      OBVIOUS
    <3> HIDE DEF S
    <3>2. QED
      BY <1>4, <3>1, OldestIs
  <2>2. todo' = chunk /\ step' = "batch" /\ UNCHANGED <<shown, replayed>>
    BY <1>4 DEF StartList
  <2>3. \A r \in Rows : table[r].key \in Nat
    BY RowHasKey DEF ReadTypes
  <2>4. SyncBatch \in Nat /\ SyncBatch > 0
    BY ReconnectReplayAssumption
  <2>5. chunk # <<>> => Len(chunk) \in 1..Len(chunk) /\ Last(chunk) = chunk[Len(chunk)]
                        /\ Last(chunk) \in Rows
    <3>1. chunk # <<>> => Len(chunk) \in Nat \ {0}
      BY <2>1, EmptySeq
    <3>2. QED
      BY <2>1, <3>1, ElementOfSeq DEF Last
  <2>6. cursor' \in Nat
    BY <1>2, <1>4, <2>3, <2>5
  <2>7. ReadTypes'
    BY <1>1, <2>2, <2>6 DEF ReadTypes, Others
  <2>8. ReplayTypes'
    BY <1>1, <1>4, <2>1, <2>2 DEF ReplayTypes, Others, redisVars
  <2>9. ReplayedOnce'
    BY <2>2, NothingSent
  <2>10. steady \subseteq Rows /\ \A r \in steady : There(r)
    BY DEF ReadTypes, SentToCursor
  <2>11. ASSUME NEW r \in steady, table[r].key > walk.baseline, table[r].key <= from
         PROVE  r \in replayed
    <3>1. table[r].key \in Nat /\ cursor # 0 /\ table[r].key <= cursor
      BY <1>2, <2>3, <2>10, <2>11
    <3>2. QED
      BY <1>1, <2>11, <3>1 DEF SentToCursor
  <2>12. ASSUME NEW r \in steady, table[r].key > from, r \notin Range(chunk)
         PROVE  Len(chunk) = SyncBatch /\ table[r].key > cursor'
    <3>1. r \in S \ Range(chunk)
      BY <2>10, <2>12
    <3>2. Len(chunk) = SyncBatch /\ chunk # <<>>
      <4>1. Len(chunk) = SyncBatch
        BY <2>1, <3>1
      <4>2. QED
        BY <2>4, <4>1, EmptySeq
    <3>3. QED
      BY <1>4, <2>1, <2>5, <3>1, <3>2
  <2>13. \A r \in steady : table[r].key > walk.baseline /\ table[r].key <= cursor'
           => r \in replayed \/ r \in Range(chunk)
    <3> SUFFICES ASSUME NEW r \in steady, table[r].key > walk.baseline,
                        table[r].key <= cursor', r \notin Range(chunk)
                 PROVE  r \in replayed
      OBVIOUS
    <3>1. table[r].key \in Nat
      BY <2>3, <2>10
    <3>2. ~(table[r].key > from)
      BY <2>6, <2>12, <3>1
    <3>3. QED
      BY <1>2, <2>11, <3>1, <3>2
  <2>14. ~full' => \A r \in steady : table[r].key > walk.baseline
           => r \in replayed \cup Range(chunk)
    <3> SUFFICES ASSUME ~full', NEW r \in steady, table[r].key > walk.baseline,
                        r \notin Range(chunk)
                 PROVE  r \in replayed
      OBVIOUS
    <3>1. table[r].key \in Nat
      BY <2>3, <2>10
    <3>2. ~(table[r].key > from)
      BY <1>4, <2>12, <3>1
    <3>3. QED
      BY <1>2, <2>11, <3>1, <3>2
  <2>15. SentToCursor'
    BY <1>1, <2>2, <2>10, <2>13, <2>14 DEF SentToCursor, There, Others
  <2>16. QED
    BY <2>7, <2>8, <2>9, <2>15
<1>5. QED
  <2> HIDE DEF S, from
  <2>1. QED
    BY <1>1, <1>3, <1>4

LEMMA ReplayBatchKeepsInv ==
  ASSUME ReadTypes, ReplayTypes, walk.endpoint = "replay", ReplayedOnce, SentToCursor,
         ReplayBatch
  PROVE  ReadTypes' /\ ReplayTypes' /\ ReplayedOnce' /\ SentToCursor'
<1>1. /\ step = "batch" /\ UNCHANGED <<Others, cursor, full>>
  BY DEF ReplayBatch
<1>2. CASE /\ todo = <<>> /\ UNCHANGED count
           /\ StartList(<<>>, IF full /\ count < ReplayLimit THEN "query" ELSE "done")
  <2>1. /\ todo' = <<>> /\ UNCHANGED <<shown, replayed>>
        /\ step' = IF full /\ count < ReplayLimit THEN "query" ELSE "done"
    BY <1>2 DEF StartList
  <2>2. ReadTypes'
    BY <1>1, <2>1 DEF ReadTypes, Others
  <2>3. ReplayTypes'
    BY <1>1, <1>2, <2>1, EmptyList DEF ReplayTypes, Others, redisVars
  <2>4. ReplayedOnce'
    BY <2>1, NothingSent
  <2>5. Range(todo) = {}
    BY <1>2, EmptyList
  <2>6. SentToCursor'
    BY <1>1, <1>2, <2>1, <2>5 DEF SentToCursor, There, Others
  <2>7. QED
    BY <2>2, <2>3, <2>4, <2>6
<1>3. CASE WriteFails("failed") /\ UNCHANGED count
  <2>1. todo' = <<>> /\ step' = "failed" /\ UNCHANGED <<shown, replayed>>
    BY <1>3 DEF WriteFails
  <2>2. ReadTypes'
    BY <1>1, <2>1 DEF ReadTypes, Others
  <2>3. ReplayTypes'
    BY <1>1, <1>3, <2>1, EmptyList DEF ReplayTypes, Others, redisVars
  <2>4. ReplayedOnce'
    BY <2>1, NothingSent
  <2>5. SentToCursor'
    BY <1>1, <2>1 DEF SentToCursor, There, Others
  <2>6. QED
    BY <2>2, <2>3, <2>4, <2>5
<1>4. ASSUME todo # <<>>, todo' = Tail(todo), step' = step, count' \in Nat,
             shown' \in Seq(Shown), replayed' \subseteq Rows,
             replayed \subseteq replayed', Head(todo) \in replayed',
             replayed' = {shown'[n].row : n \in DOMAIN shown'},
             \A m, n \in DOMAIN shown' : m # n => shown'[m].row # shown'[n].row
      PROVE  ReadTypes' /\ ReplayTypes' /\ ReplayedOnce' /\ SentToCursor'
  <2>1. /\ Tail(todo) \in Seq(Rows)
        /\ \A r \in Range(todo) : r = Head(todo) \/ r \in Range(Tail(todo))
    BY <1>4, RestOfList DEF ReplayTypes
  <2>2. ReadTypes'
    BY <1>1, <1>4 DEF ReadTypes, Others
  <2>3. ReplayTypes'
    BY <1>1, <1>4, <2>1 DEF ReplayTypes, Others, redisVars
  <2>4. ReplayedOnce'
    BY <1>1, <1>4 DEF ReplayedOnce
  <2>5. SentToCursor'
    BY <1>1, <1>4, <2>1 DEF SentToCursor, There, Others
  <2>6. QED
    BY <2>2, <2>3, <2>4, <2>5
<1>5. /\ replayed = {shown[n].row : n \in DOMAIN shown}
      /\ \A m, n \in DOMAIN shown : m # n => shown[m].row # shown[n].row
  BY DEF ReplayedOnce
<1>6. CASE todo # <<>> /\ Head(todo) \in replayed /\ PassOver /\ UNCHANGED count
  BY <1>4, <1>5, <1>6 DEF PassOver, ReadTypes, ReplayTypes
<1>7. CASE todo # <<>> /\ Head(todo) \notin replayed /\ Send(Head(todo)) /\ count' = count + 1
  <2>1. Head(todo) \in Rows
    BY <1>7, RestOfList DEF ReplayTypes
  <2>2. /\ shown' \in Seq(Shown) /\ replayed' \subseteq Rows
        /\ replayed' = replayed \cup {Head(todo)}
        /\ replayed' = {shown'[n].row : n \in DOMAIN shown'}
        /\ \A m, n \in DOMAIN shown' : m # n => shown'[m].row # shown'[n].row
    BY <1>5, <1>7, <2>1, SendKeepsOnce
  <2>3. count' \in Nat
    BY <1>7 DEF ReplayTypes
  <2>4. todo' = Tail(todo) /\ step' = step
    BY <1>7 DEF Send
  <2>5. QED
    BY <1>4, <1>7, <2>2, <2>3, <2>4
<1>8. QED
  BY <1>2, <1>3, <1>6, <1>7 DEF ReplayBatch, NotReplayed

(* What moves in the store or in Redis meanwhile.                          *)
LEMMA MoveKeepsReplay ==
  ASSUME ReadTypes, ReplayTypes, walk.endpoint = "replay", ReplayedOnce, SentToCursor,
         Moved, table' \in [Rows -> TableRow], standing' \in Standing,
         UNCHANGED <<todo, full, replayed, count>>,
         pending' \subseteq Rows, ghosts' \subseteq Rows,
         timeline' \subseteq Rows, payloads' \subseteq Rows
  PROVE  ReadTypes' /\ ReplayTypes' /\ ReplayedOnce' /\ SentToCursor'
<1>1. /\ UNCHANGED <<walk, step, readAs, cursor, shown>> /\ step # "done"
      /\ steady' = {r \in steady : Selected(r, standing)' /\ table'[r].key = table[r].key}
  BY DEF Moved
<1>2. \A r \in steady' : Selected(r, standing)' /\ table'[r].key = table[r].key
                         /\ r \in steady
  BY <1>1
<1>3. ReadTypes'
  BY <1>1 DEF ReadTypes
<1>4. ReplayTypes'
  BY DEF ReplayTypes
<1>5. ReplayedOnce'
  <2>1. UNCHANGED <<step, shown, todo, replayed>>
    BY <1>1
  <2>2. /\ replayed = {shown[n].row : n \in DOMAIN shown}
        /\ \A m, n \in DOMAIN shown : m # n => shown[m].row # shown[n].row
    BY DEF ReplayedOnce
  <2>3. /\ replayed' = {shown'[n].row : n \in DOMAIN shown'}
        /\ \A m, n \in DOMAIN shown' : m # n => shown'[m].row # shown'[n].row
    BY <2>1, <2>2
  <2>4. step' = "ask" => replayed' = {}
    BY <2>1 DEF ReplayedOnce
  <2>5. step' = "pending" =>
          /\ \A i, j \in DOMAIN todo' : i # j => todo'[i] # todo'[j]
          /\ \A i \in DOMAIN todo' : todo'[i] \notin replayed'
    BY <2>1 DEF ReplayedOnce
  <2>6. QED
    BY <2>3, <2>4, <2>5 DEF ReplayedOnce
<1>6. \A r \in steady' : There(r)'
  BY <1>2 DEF SentToCursor, There
<1>7. SentToCursor'
  BY <1>1, <1>2, <1>6 DEF SentToCursor
<1>8. QED
  BY <1>3, <1>4, <1>5, <1>7

-----------------------------------------------------------------------------
LEMMA ReadInitHolds == ReadInit => ReadInv
<1> SUFFICES ASSUME NEW w \in Walks, WalkStarts(w), ReplayStarts(w)
             PROVE  ReadInv
  BY DEF ReadInit
<1>1. /\ w.endpoint \in Endpoints /\ w.role \in Standing /\ w.rows \in [Rows -> TableRow]
      /\ w.baseline \in Nat /\ w.unacked \subseteq Rows /\ w.remembered \subseteq Rows
  BY PagedReadsAssumption, ReconnectReplayAssumption
<1>2. <<>> \in Seq(Shown) /\ Len(<<>>) = 0
  BY EmptySeq
<1>3. DOMAIN <<>> = {}
  BY EmptyList DEF Range
<1>4. ReadTypes
  BY <1>1, <1>2 DEF WalkStarts, ReadTypes, Standing
<1>5. ReplayTypes
  BY <1>1, EmptyList DEF ReplayStarts, ReplayTypes
<1>6. SteadyIsListed
  BY DEF WalkStarts, SteadyIsListed
<1>7. ShownToCursor
  BY <1>3 DEF WalkStarts, ShownToCursor
<1>8. ReplayedOnce
  BY <1>3 DEF WalkStarts, ReplayStarts, ReplayedOnce
<1>9. \A r \in steady : There(r)
  BY SelectedThere DEF WalkStarts
<1>10. \A r \in Rows : table[r].key \in Nat
  BY <1>4, RowHasKey DEF ReadTypes
<1>11. SentToCursor
  <2>1. \A r \in steady : table[r].key > walk.baseline /\ table[r].key <= cursor => FALSE
    BY <1>1, <1>4, <1>10 DEF WalkStarts, ReadTypes
  <2>2. QED
    BY <1>9, <2>1 DEF WalkStarts, SentToCursor
<1>12. QED
  BY <1>4, <1>5, <1>6, <1>7, <1>8, <1>11 DEF ReadInv, WalkInv, ReplayInv

LEMMA ReadInvKept == ReadInv /\ [ReadNext]_<<readVars, replayVars>> => ReadInv'
<1> SUFFICES ASSUME ReadInv, [ReadNext]_<<readVars, replayVars>> PROVE ReadInv'
  OBVIOUS
<1>1. ReadTypes /\ ReplayTypes /\ WalkInv /\ ReplayInv
  BY DEF ReadInv
<1>2. ASSUME walk.endpoint # "replay", UNCHANGED replayVars,
             ReadTypes' /\ SteadyIsListed' /\ ShownToCursor', walk' = walk
      PROVE  ReadInv'
  <2>1. ReplayTypes'
    BY <1>1, <1>2 DEF ReplayTypes, replayVars, redisVars
  <2>2. QED
    BY <1>2, <2>1 DEF ReadInv, WalkInv, ReplayInv
<1>3. ASSUME walk.endpoint = "replay", walk' = walk,
             ReadTypes' /\ ReplayTypes' /\ ReplayedOnce' /\ SentToCursor'
      PROVE  ReadInv'
  BY <1>3 DEF ReadInv, WalkInv, ReplayInv
<1>4. CASE (ReadStep \/ OthersMove) /\ walk.endpoint # "replay" /\ UNCHANGED replayVars
  <2>1. SteadyIsListed /\ ShownToCursor
    BY <1>1, <1>4 DEF WalkInv
  <2>2. CASE ReadStep
    <3>1. walk' = walk
      BY <2>2 DEF ReadStep, AskHistory, AskTasks, AskSubmissions, AskPosts, Admit, GetHistory,
                  GetHistoryLegacy, ListTasks, ListSubmissions, Posts, TurnPage
    <3>2. QED
      BY <1>1, <1>2, <1>4, <2>1, <2>2, <3>1, ReadStepKeepsInv
  <2>3. CASE OthersMove
    <3>1. walk' = walk
      BY <1>1, <2>3, MovesAre DEF Moved
    <3>2. QED
      BY <1>1, <1>2, <1>4, <2>1, <2>3, <3>1, MoveKeepsWalk
  <2>4. QED
    BY <1>4, <2>2, <2>3
<1>5. CASE walk.endpoint = "replay" /\ ReplayStep
  <2>1. ReplayedOnce /\ SentToCursor
    BY <1>1, <1>5 DEF ReplayInv
  <2>2. walk' = walk
    BY <1>5 DEF ReplayStep, ListPending, ReplayPending, ListTimeline, ReplayTimeline,
                QueryBatch, ReplayBatch, Others
  <2>3. QED
    BY <1>1, <1>3, <1>5, <2>1, <2>2, ListPendingKeepsInv, ReplayPendingKeepsInv,
       TimelineKeepsInv, QueryBatchKeepsInv, ReplayBatchKeepsInv DEF ReplayStep
<1>6. ASSUME walk.endpoint = "replay", NEW r \in Rows, RowAppears(r), UNCHANGED replayVars
      PROVE  ReadInv'
  <2>1. ReplayedOnce /\ SentToCursor
    BY <1>1, <1>6 DEF ReplayInv
  <2>2. Moved /\ table' \in [Rows -> TableRow] /\ standing' \in Standing
    BY <1>1, <1>6, MovesAre DEF OthersMove
  <2>3. /\ UNCHANGED <<todo, full, replayed, count>>
        /\ pending' \subseteq Rows /\ ghosts' \subseteq Rows
        /\ timeline' \subseteq Rows /\ payloads' \subseteq Rows
    BY <1>1, <1>6 DEF ReplayTypes, replayVars, redisVars
  <2>4. walk' = walk
    BY <2>2 DEF Moved
  <2>5. QED
    BY <1>1, <1>3, <1>6, <2>1, <2>2, <2>3, <2>4, MoveKeepsReplay
<1>7. ASSUME walk.endpoint = "replay", NEW r \in Rows,
             Delivered(r) \/ Acknowledged(r) \/ Expired(r)
      PROVE  ReadInv'
  <2>1. ReplayedOnce /\ SentToCursor
    BY <1>1, <1>7 DEF ReplayInv
  <2>2. Moved /\ table' = table /\ standing' = standing
        /\ UNCHANGED <<todo, full, replayed, count>>
    BY <1>7 DEF Delivered, Acknowledged, Expired, RedisMoves
  <2>3. /\ pending' \subseteq Rows /\ ghosts' \subseteq Rows
        /\ timeline' \subseteq Rows /\ payloads' \subseteq Rows
    BY <1>1, <1>7 DEF Delivered, Acknowledged, Expired, ReplayTypes
  <2>4. walk' = walk /\ table' \in [Rows -> TableRow] /\ standing' \in Standing
    BY <1>1, <2>2 DEF Moved, ReadTypes
  <2>5. QED
    BY <1>1, <1>3, <1>7, <2>1, <2>2, <2>3, <2>4, MoveKeepsReplay
<1>8. CASE UNCHANGED <<readVars, replayVars>>
  BY <1>1, <1>8 DEF readVars, replayVars, redisVars, ReadInv, ReadTypes, ReplayTypes, WalkInv,
     ReplayInv, SteadyIsListed, ShownToCursor, HasShown, Owed, Selected, TaskRow, PostRow,
     There, ReplayedOnce, SentToCursor
<1>9. QED
  BY <1>4, <1>5, <1>6, <1>7, <1>8 DEF ReadNext, ReplayNext

\* The inductive invariant of the reads.
LEMMA ReadInvariant == ReadSpec => []ReadInv
BY ReadInitHolds, ReadInvKept, PTL DEF ReadSpec

(* A walk along the cursors (history, tasks, submissions, feed) shows no   *)
(* row twice under one key, and at its end has shown each row that was     *)
(* listed all the while: NextCursor, NextBeforeSeq and the browser's       *)
(* synchronisation miss nothing, for every page size and any changes.      *)
THEOREM WalksAreExact == ReadSpec => []WalkIsExact
<1>1. ReadInv => WalkIsExact
  BY DEF ReadInv, WalkInv, ShownToCursor, WalkIsExact, HasShown
<1>2. QED
  BY <1>1, ReadInvariant, PTL

(* A replay sends no message twice, whichever of its three sources lists   *)
(* it, and one that runs to its end has sent all it owes (replayed,        *)
(* syncBatchSize, maxMySQLReplayCount), for every batch size and limit.    *)
THEOREM ReplaysAreExact == ReadSpec => []ReplayIsExact
<1>1. ReadInv => ReplayIsExact
  <2> SUFFICES ASSUME ReadInv, walk.endpoint = "replay" PROVE ReplayIsExact
    BY DEF ReplayIsExact
  <2>1. ReplayedOnce /\ SentToCursor /\ ReadTypes /\ ReplayTypes
    BY DEF ReadInv, ReplayInv
  <2>2. \A m, n \in DOMAIN shown : m # n => shown[m].row # shown[n].row
    BY <2>1 DEF ReplayedOnce
  <2>3. ASSUME step = "done", NEW r \in steady, table[r].key > walk.baseline,
               count >= ReplayLimit => table[r].key <= cursor
        PROVE  \E n \in DOMAIN shown : shown[n].row = r
    <3>1. count \in Nat /\ ReplayLimit \in Nat
      BY <2>1, ReconnectReplayAssumption DEF ReplayTypes
    <3>2. r \in replayed
      BY <2>1, <2>3, <3>1 DEF SentToCursor
    <3>3. QED
      BY <2>1, <3>2 DEF ReplayedOnce
  <2>4. QED
    BY <2>2, <2>3 DEF ReplayIsExact
<1>2. QED
  BY <1>1, ReadInvariant, PTL

=============================================================================
