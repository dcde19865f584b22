------------------------------ MODULE PagedReads ------------------------------
(***************************************************************************)
(* Lists that a client reads page by page: the history of a conversation   *)
(* (src/internal/logic/handler_history.go), the tasks of a group, the      *)
(* submissions of a task (src/internal/learningtask) and the feed of a     *)
(* community (src/internal/community/service.go).                          *)
(*                                                                         *)
(* Each page is a request of its own: it checks the reader's role, then    *)
(* selects one row more than it shows, newest first, below a cursor; the   *)
(* cursor handed out is the key of the last row shown.  Between the two    *)
(* queries, and between two pages, rows are inserted anywhere (a key is    *)
(* taken before its transaction commits), a work handed in again or a post *)
(* pinned gets another key, posts are hidden, tasks published, and the     *)
(* reader's role changes.  Nothing is locked.                              *)
(*                                                                         *)
(* A walk follows the cursors to the end.  The browser's synchronisation   *)
(* of a conversation (src/public/history-sync.js) stops at the first page  *)
(* that reaches below what an earlier one has seen.                        *)
(***************************************************************************)
EXTENDS Integers, SequencesExt

CONSTANTS
  Rows,        \* what may ever be in the list
  MaxKey,      \* bound: the times or sequence numbers; pinned posts come above
  PageLimit,   \* rows of a page (limit; 20 of the feed)
  Walks,       \* what is read, by whom, and the rows there are
  MaxMoves     \* bound: changes that others make during the walk

Keys == 1..(2 * MaxKey)
Statuses == {"none", "there", "draft", "published", "closed", "hidden", "deleted"}
TableRow == [key : {0} \cup Keys, status : Statuses]
Shown == [row : Rows, key : Nat]
Standing == {"manager", "member", "none"}
Endpoints == {"history", "tasks", "submissions", "feed", "replay"}

ASSUME PagedReadsAssumption ==
  /\ IsFiniteSet(Rows)
  /\ MaxKey \in Nat \ {0} /\ PageLimit \in Nat \ {0} /\ MaxMoves \in Nat
  /\ \A w \in Walks :
       /\ w.endpoint \in Endpoints /\ w.role \in Standing
       /\ w.rows \in [Rows -> TableRow]
       /\ \A r, q \in Rows : r # q /\ w.rows[q].key # 0
            => w.rows[r].key \notin {w.rows[q].key, w.rows[q].key + MaxKey}
       /\ {w.oldSchema, w.group, w.sync} \subseteq BOOLEAN
       /\ w.baseline \in Nat /\ w.filter \in {"published", "hidden"}

VARIABLES
  walk,      \* one of Walks
  table,     \* the rows: key 0 for one that is not there
  standing,  \* the reader's role in the group
  step,      \* where the walk stands
  readAs,    \* the role that the request under way has read
  cursor,    \* handed out with the last page; 0 before the first
  shown,     \* the rows the client got, with the keys they had
  steady,    \* history: listed, under the same key, ever since the walk began
  moves

readVars == <<walk, table, standing, step, readAs, cursor, shown, steady, moves>>

Managing == {"manager"}
There(r) == table[r].key # 0

(* The rows that the query of an endpoint selects, for a reader of a role. *)
TaskRow(r, role) == There(r) /\ (role = "member" => table[r].status # "draft")

PostRow(r) == There(r) /\ table[r].status = walk.filter

Selected(r, role) ==
  CASE walk.endpoint = "tasks" -> TaskRow(r, role)
    [] walk.endpoint = "feed"  -> PostRow(r)
    [] OTHER                   -> There(r)

WalkStarts(w) ==
  /\ walk = w
  /\ table = w.rows
  /\ standing = w.role
  /\ step = "ask"
  /\ readAs = "none"
  /\ cursor = 0
  /\ shown = <<>>
  /\ steady = {r \in Rows : Selected(r, w.role)}
  /\ moves = 0

-----------------------------------------------------------------------------
(* The first query of a request: who asks?                                 *)
Admit(endpoint, allowed) ==
  /\ walk.endpoint = endpoint /\ step = "ask"
  /\ readAs' = standing
  /\ step' = IF allowed THEN "fetch" ELSE "refused"
  /\ UNCHANGED <<walk, table, standing, cursor, shown, steady, moves>>

\* isCurrentGroupMember, for a group; a chat is the reader's own.
AskHistory == Admit("history", walk.group => standing # "none")

\* requireRole
AskTasks == Admit("tasks", standing # "none")

\* Get shows the task, requireManager
AskSubmissions == Admit("submissions", standing \in Managing)

\* The hidden posts are for managers.
AskPosts ==
  Admit("feed", standing # "none" /\ (walk.filter = "hidden" => standing \in Managing))

\* Faulty: the cursor is the key of the row that was looked at, not shown.
NextCursorOfExtra(page) == table[page[PageLimit + 1]].key

NextCursor(page) == table[page[PageLimit]].key

\* The client has read down to what it had.
Overlaps(kept) ==
  walk.sync /\ (walk.baseline = 0 \/ \E n \in DOMAIN kept : kept[n].key <= walk.baseline)

\* SELECT ... ORDER BY key DESC LIMIT n, of the rows S.
Newest(S, n) ==
  {list \in BoundedSeq(S, n) :
     /\ \A i, j \in DOMAIN list : i < j => table[list[i]].key > table[list[j]].key
     /\ \A r \in S \ Range(list) :
          Len(list) = n /\ \A i \in DOMAIN list : table[r].key < table[list[i]].key}

(* The second query: ... AND key < cursor, one row more than the page.     *)
TurnPage(selected) ==
  \E list \in Newest({r \in selected : cursor = 0 \/ table[r].key < cursor}, PageLimit + 1) :
    LET more == Len(list) > PageLimit
        page == IF more THEN SubSeq(list, 1, PageLimit) ELSE list
        kept == [n \in DOMAIN page |-> [row |-> page[n], key |-> table[page[n]].key]]
    IN
    /\ shown' = shown \o kept
    /\ cursor' = IF more THEN NextCursor(list) ELSE cursor
    /\ step' = IF more /\ ~Overlaps(kept) THEN "ask" ELSE "done"
    /\ UNCHANGED <<walk, table, standing, readAs, steady, moves>>

\* A database from before client_msg_id answers with an unknown column.
GetHistory ==
  /\ walk.endpoint = "history" /\ step = "fetch"
  /\ IF walk.oldSchema
       THEN /\ step' = "legacy"
            /\ UNCHANGED <<walk, table, standing, readAs, cursor, shown, steady, moves>>
       ELSE TurnPage({r \in Rows : There(r)})

GetHistoryLegacy == step = "legacy" /\ TurnPage({r \in Rows : There(r)})

ListTasks ==
  walk.endpoint = "tasks" /\ step = "fetch" /\ TurnPage({r \in Rows : TaskRow(r, readAs)})

ListSubmissions ==
  walk.endpoint = "submissions" /\ step = "fetch" /\ TurnPage({r \in Rows : There(r)})

Posts ==
  walk.endpoint = "feed" /\ step = "fetch" /\ TurnPage({r \in Rows : PostRow(r)})

-----------------------------------------------------------------------------
(* What others do.  A change leaves the rows steady that are still listed  *)
(* for the reader, under the same key.                                     *)
Moved ==
  /\ step \notin {"done", "refused", "failed"} /\ moves < MaxMoves
  /\ moves' = moves + 1
  /\ UNCHANGED <<walk, step, readAs, cursor, shown>>
  /\ steady' = {r \in steady : Selected(r, standing)' /\ table'[r].key = table[r].key}

Unused(k) == \A r \in Rows : table[r].key # k

\* The status of a row that is inserted.
Fresh ==
  CASE walk.endpoint = "tasks" -> "draft"
    [] walk.endpoint = "feed"  -> "published"
    [] OTHER                   -> "there"

\* Its sequence number or time was taken before; it appears with its commit.
RowAppears(r) ==
  /\ ~There(r)
  /\ \E k \in 1..MaxKey :
       /\ Unused(k) /\ Unused(k + MaxKey)
       /\ table' = [table EXCEPT ![r] = [key |-> k, status |-> Fresh]]
  /\ UNCHANGED standing
  /\ Moved

\* Handed in again: submitted_at is the time of now.
HandedInAgain(r) ==
  /\ walk.endpoint = "submissions" /\ There(r)
  /\ \E k \in 1..MaxKey :
       /\ k > table[r].key /\ Unused(k)
       /\ table' = [table EXCEPT ![r] = [@ EXCEPT !.key = k]]
  /\ UNCHANGED standing
  /\ Moved

\* The list shows pinned posts first.
Pinned(key) == IF key > MaxKey THEN key - MaxKey ELSE key + MaxKey

\* EditPost pins and unpins, hides, shows again and deletes.
PostEdited(r) ==
  /\ walk.endpoint = "feed" /\ There(r)
  /\ \/ table' = [table EXCEPT ![r] = [@ EXCEPT !.key = Pinned(table[r].key)]]
     \/ \E s \in {"published", "hidden", "deleted"} :
          /\ table[r].status \notin {s, "deleted"}
          /\ table' = [table EXCEPT ![r] = [@ EXCEPT !.status = s]]
  /\ UNCHANGED standing
  /\ Moved

TaskPublished(r) ==
  /\ walk.endpoint = "tasks" /\ There(r) /\ table[r].status = "draft"
  /\ table' = [table EXCEPT ![r] = [@ EXCEPT !.status = "published"]]
  /\ UNCHANGED standing
  /\ Moved

StandingChanges ==
  /\ standing' \in Standing \ {standing}
  /\ UNCHANGED table
  /\ Moved

ReadStep ==
  \/ AskHistory \/ AskTasks \/ AskSubmissions \/ AskPosts
  \/ GetHistory \/ GetHistoryLegacy \/ ListTasks \/ ListSubmissions \/ Posts

OthersMove ==
  \/ \E r \in Rows : RowAppears(r) \/ HandedInAgain(r) \/ PostEdited(r) \/ TaskPublished(r)
  \/ StandingChanges

-----------------------------------------------------------------------------
\* A first synchronisation takes the newest page only.
Owed(r) == ~walk.sync \/ (walk.baseline > 0 /\ table[r].key > walk.baseline)

(* A walk shows no row twice under one key and goes down all the way, and  *)
(* one that has come to its end has shown every row that was listed all    *)
(* the while, whatever else was inserted, moved, hidden or withdrawn       *)
(* (NextBeforeSeq, NextCursor; "keep fetching until a page overlaps the    *)
(* last completed local range", history-sync.js:4).                        *)
WalkIsExact ==
  walk.endpoint # "replay" =>
    /\ \A m, n \in DOMAIN shown : m < n => shown[m].key > shown[n].key
    /\ step = "done" =>
         \A r \in steady : Owed(r) => \E n \in DOMAIN shown : shown[n].row = r

=============================================================================
