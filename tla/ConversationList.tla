--------------------------- MODULE ConversationList ---------------------------
(***************************************************************************)
(* The conversation list a login returns, and its cache in Redis           *)
(* (src/internal/logic/conversation.go: listConversations,                 *)
(* cacheConversationState, cacheConversationList and                       *)
(* filterCommunityConversations).                                          *)
(*                                                                         *)
(* Every delivery attempt of a message writes the conversation's summary,  *)
(* the index of its members and the sender's read cursor to Redis, late or *)
(* repeatedly as the delivery outbox runs it.  A login that finds its      *)
(* index empty reads MySQL instead and fills the cache with what it read,  *)
(* without a guard.  Leaving a community group is one MySQL transaction;   *)
(* the cache keys are deleted afterwards, if at all, and a late job puts   *)
(* them back.  Who may see a group is decided by MySQL at the end.         *)
(***************************************************************************)
EXTENDS Integers, FiniteSetsExt

CONSTANTS
  Users,
  Callers,        \* bound: the users who log in or change their membership
  Conversations,
  Messages,
  ConvOf, SeqNo, FromOf,
  Jobs,           \* delivery attempts: one message may have several
  MessageOf,      \* [Jobs -> Messages]
  MaxChanges      \* bound: joins and leaves

ASSUME ConversationListAssumption ==
  /\ Callers \subseteq Users
  /\ ConvOf \in [Messages -> Conversations]
  /\ SeqNo \in [Messages -> Nat \ {0}]
  /\ FromOf \in [Messages -> Users]
  /\ MessageOf \in [Jobs -> Messages]
  /\ MaxChanges \in Nat

VARIABLES
  groups,      \* the conversations of community groups; the others are chats
  members,     \* group_members with status active; both ends of a chat
  stored,      \* messages that MySQL holds
  recipients,  \* delivery_outbox.recipients_json of a stored message
  dbLast, dbRead,        \* conversations.last_seq, conversation_members.read_seq
  index,       \* user:conversations, without its scores
  last,        \* conversation:last, its last_seq; NoKey without the hash
  read,        \* user:conversation:read
  job,         \* where a delivery attempt stands
  call,        \* where a user's login stands
  found,       \* the conversations the login has found so far
  snap,        \* what it read of them in MySQL
  dropping,    \* users whose cache keys are about to be deleted
  changes

dbVars == <<groups, members, stored, recipients, dbLast, dbRead, changes>>
cacheVars == <<index, last, read>>
callVars == <<call, found, snap>>
listVars == <<dbVars, cacheVars, job, callVars, dropping>>

NoKey == -1
NoRow == -1
Row == [last : Nat, read : Nat]
NoRows == [c \in Conversations |-> [last |-> 0, read |-> 0]]

ListInit ==
  /\ groups \in SUBSET Conversations
  /\ members = [c \in Conversations |-> Users]
  /\ stored = {}
  /\ recipients = [m \in Messages |-> {}]
  /\ dbLast = [c \in Conversations |-> 0]
  /\ dbRead = [c \in Conversations |->
       [u \in Users |-> IF c \in groups THEN 0 ELSE NoRow]]
  /\ index = [u \in Users |-> {}]
  /\ last = [c \in Conversations |-> NoKey]
  /\ read = [u \in Users |-> [c \in Conversations |-> 0]]
  /\ job = [j \in Jobs |-> "waiting"]
  /\ call = [u \in Users |-> "none"]
  /\ found = [u \in Users |-> {}]
  /\ snap = [u \in Users |-> NoRows]
  /\ dropping = {}
  /\ changes = 0

-----------------------------------------------------------------------------
(* The transaction that stores a message, with the recipients of then.     *)
Store(m) ==
  /\ m \notin stored
  /\ FromOf[m] \in members[ConvOf[m]]
  /\ \A n \in stored : ConvOf[n] = ConvOf[m] => SeqNo[n] < SeqNo[m]
  /\ stored' = stored \cup {m}
  /\ recipients' = [recipients EXCEPT ![m] = members[ConvOf[m]]]
  /\ UNCHANGED <<groups, members, dbLast, dbRead, changes, cacheVars, job, callVars, dropping>>

(* The conversation outbox folds a message into MySQL's summary, at some   *)
(* time, and for a chat its members and their read cursors.                *)
Fold(m) ==
  LET c == ConvOf[m] IN
  /\ m \in stored
  /\ dbLast' = [dbLast EXCEPT ![c] = Max({@, SeqNo[m]})]
  /\ dbRead' = IF c \in groups THEN dbRead
               ELSE [dbRead EXCEPT ![c] = [u \in Users |->
                       Max({@[u], IF u = FromOf[m] THEN SeqNo[m] ELSE 0})]]
  /\ UNCHANGED <<groups, members, stored, recipients, changes, cacheVars, job, callVars, dropping>>

(* Service.Membership in one transaction; the handler then deletes keys.   *)
Leave(u, c) ==
  /\ c \in groups /\ u \in members[c] /\ changes < MaxChanges
  /\ members' = [members EXCEPT ![c] = @ \ {u}]
  /\ dbRead' = [dbRead EXCEPT ![c][u] = NoRow]
  /\ dropping' = dropping \cup {u}
  /\ changes' = changes + 1
  /\ UNCHANGED <<groups, stored, recipients, dbLast, cacheVars, job, callVars>>

Join(u, c) ==
  /\ c \in groups /\ u \notin members[c] /\ changes < MaxChanges
  /\ members' = [members EXCEPT ![c] = @ \cup {u}]
  /\ dbRead' = [dbRead EXCEPT ![c][u] = 0]
  /\ dropping' = dropping \cup {u}
  /\ changes' = changes + 1
  /\ UNCHANGED <<groups, stored, recipients, dbLast, cacheVars, job, callVars>>

(* DEL of the user's keys, with a deadline of a second and no retry.       *)
DropCache(u) ==
  /\ u \in dropping
  /\ dropping' = dropping \ {u}
  /\ \/ UNCHANGED <<index, read>>
     \/ /\ index' = [index EXCEPT ![u] = {}]
        /\ read' = [read EXCEPT ![u] = [c \in Conversations |-> 0]]
  /\ UNCHANGED <<dbVars, last, job, callVars>>

(* The keys expire after thirty days without use.                          *)
Expire ==
  /\ \/ \E u \in Users :
          \/ index' = [index EXCEPT ![u] = {}] /\ UNCHANGED <<last, read>>
          \/ /\ read' = [read EXCEPT ![u] = [c \in Conversations |-> 0]]
             /\ UNCHANGED <<index, last>>
     \/ \E c \in Conversations :
          last' = [last EXCEPT ![c] = NoKey] /\ UNCHANGED <<index, read>>
  /\ UNCHANGED <<dbVars, job, callVars, dropping>>

-----------------------------------------------------------------------------
JobStep(j, from, to) == job[j] = from /\ job' = [job EXCEPT ![j] = to]

\* Faulty: the script applies whatever comes.
AppliesAlways(m) == TRUE

\* updateConversationLastScript: current_seq > incoming_seq is refused.
Applies(m) == last[ConvOf[m]] <= SeqNo[m]

(* The script runs; the index is touched only if it applied the message.   *)
CacheSummary(j) ==
  LET m == MessageOf[j] IN
  /\ m \in stored
  /\ IF Applies(m)
       THEN /\ JobStep(j, "waiting", "index")
            /\ last' = [last EXCEPT ![ConvOf[m]] = SeqNo[m]]
       ELSE JobStep(j, "waiting", "read") /\ UNCHANGED last
  /\ UNCHANGED <<dbVars, index, read, callVars, dropping>>

(* ZADD GT for the sender and every recipient, in one MULTI.               *)
CacheIndex(j) ==
  LET m == MessageOf[j] IN
  /\ JobStep(j, "index", "read")
  /\ index' = [u \in Users |->
       IF u \in recipients[m] \cup {FromOf[m]} THEN index[u] \cup {ConvOf[m]} ELSE index[u]]
  /\ UNCHANGED <<dbVars, last, read, callVars, dropping>>

\* markConversationReadScript: the cursor only moves forward.
Seen(u, m) == Max({read[u][ConvOf[m]], SeqNo[m]})

(* MarkConversationRead for the sender.                                    *)
CacheRead(j) ==
  LET m == MessageOf[j]  u == FromOf[m] IN
  /\ JobStep(j, "read", "done")
  /\ read' = [read EXCEPT ![u][ConvOf[m]] = Seen(u, m)]
  /\ UNCHANGED <<dbVars, index, last, callVars, dropping>>

(* Redis fails: the error is logged and the rest left out.                 *)
JobFails(j) ==
  /\ job[j] \in {"index", "read"}
  /\ job' = [job EXCEPT ![j] = "done"]
  /\ UNCHANGED <<dbVars, cacheVars, callVars, dropping>>

-----------------------------------------------------------------------------
(* A login begins: the index, and the summaries of what it holds.          *)
List(u) ==
  /\ call[u] \in {"none", "answered"}
  /\ call' = [call EXCEPT ![u] = IF index[u] = {} THEN "reading" ELSE "filtering"]
  /\ found' = [found EXCEPT ![u] = index[u]]
  /\ UNCHANGED <<dbVars, cacheVars, job, snap, dropping>>

(* The index is empty: loadConversationsFromDB.                            *)
ReadMySQL(u) ==
  LET rows == {c \in Conversations : dbRead[c][u] # NoRow} IN
  /\ call[u] = "reading"
  /\ call' = [call EXCEPT ![u] = IF rows = {} THEN "filtering" ELSE "filling"]
  /\ found' = [found EXCEPT ![u] = rows]
  /\ snap' = [snap EXCEPT ![u] = [c \in Conversations |->
       IF c \in rows THEN [last |-> dbLast[c], read |-> dbRead[c][u]] ELSE NoRows[c]]]
  /\ UNCHANGED <<dbVars, cacheVars, job, dropping>>

(* cacheConversationList: one MULTI without guards, or an error, logged.   *)
Fill(u) ==
  /\ call[u] = "filling"
  /\ call' = [call EXCEPT ![u] = "filtering"]
  /\ \/ UNCHANGED cacheVars
     \/ /\ index' = [index EXCEPT ![u] = @ \cup found[u]]
        /\ last' = [c \in Conversations |->
             IF c \in found[u] THEN snap[u][c].last ELSE last[c]]
        /\ read' = [read EXCEPT ![u] = [c \in Conversations |->
             IF c \in found[u] THEN snap[u][c].read ELSE @[c]]]
  /\ snap' = [snap EXCEPT ![u] = NoRows]
  /\ UNCHANGED <<dbVars, job, found, dropping>>

\* filterCommunityConversations: groups by MySQL's membership of now.
Visible(u) == {c \in found[u] : c \in groups => u \in members[c]}

(* The list is filtered and returned, or the query fails and nothing is.   *)
Filter(u) ==
  /\ call[u] = "filtering"
  /\ call' = [call EXCEPT ![u] = "answered"]
  /\ \/ found' = [found EXCEPT ![u] = Visible(u)]
     \/ found' = [found EXCEPT ![u] = {}]
  /\ UNCHANGED <<dbVars, cacheVars, job, snap, dropping>>

-----------------------------------------------------------------------------
ListNext ==
  \/ \E m \in Messages : Store(m) \/ Fold(m)
  \/ \E u \in Callers, c \in Conversations : Leave(u, c) \/ Join(u, c)
  \/ \E u \in Callers : DropCache(u)
  \/ Expire
  \/ \E j \in Jobs : CacheSummary(j) \/ CacheIndex(j) \/ CacheRead(j) \/ JobFails(j)
  \/ \E u \in Callers : List(u) \/ ReadMySQL(u) \/ Fill(u) \/ Filter(u)

ListSpec == ListInit /\ [][ListNext]_listVars

-----------------------------------------------------------------------------
(* Tables, keys and the variables of a login hold values of their types.   *)
ListTypeOK ==
  /\ groups \subseteq Conversations
  /\ members \in [Conversations -> SUBSET Users]
  /\ stored \subseteq Messages
  /\ recipients \in [Messages -> SUBSET Users]
  /\ dbLast \in [Conversations -> Nat]
  /\ dbRead \in [Conversations -> [Users -> Nat \cup {NoRow}]]
  /\ index \in [Users -> SUBSET Conversations]
  /\ last \in [Conversations -> Nat \cup {NoKey}]
  /\ read \in [Users -> [Conversations -> Nat]]
  /\ job \in [Jobs -> {"waiting", "index", "read", "done"}]
  /\ call \in [Users -> {"none", "reading", "filling", "filtering", "answered"}]
  /\ found \in [Users -> SUBSET Conversations]
  /\ snap \in [Users -> [Conversations -> Row]]
  /\ dropping \subseteq Users /\ changes \in 0..MaxChanges

(* The cached summary and the read cursors go back only by expiry, by the  *)
(* deletion after a membership change, or by a fill that found the index   *)
(* empty, and then to what MySQL held: late and repeated delivery attempts *)
(* never take them back (updateConversationLastScript).                    *)
OnlyFillsMoveBack ==
  [][ /\ \A c \in Conversations :
           last'[c] < last[c] =>
             last'[c] = NoKey \/ \E u \in Users : call[u] = "filling" /\ last'[c] = snap[u][c].last
      /\ \A u \in Users, c \in Conversations :
           read'[u][c] < read[u][c] =>
             read'[u][c] = 0 \/ (call[u] = "filling" /\ read'[u][c] = snap[u][c].read) ]_listVars

=============================================================================
