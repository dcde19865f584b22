------------------------------- MODULE Community -------------------------------
(***************************************************************************)
(* A community with its members, posts, comments and likes                 *)
(* (src/internal/community/service.go).                                    *)
(*                                                                         *)
(* Service.mutate is one READ COMMITTED transaction: it locks the actor's  *)
(* row in users, looks the request id up, lets the operation lock the rows *)
(* it decides on, and commits the change with the request and the events   *)
(* it emits.  The operations lock different rows in different orders, so   *)
(* a transaction may wait for another one, and two for each other.         *)
(***************************************************************************)
EXTENDS Integers, Sequences, SequencesExt, FiniteSets

CONSTANTS
  Users, NoOne,
  Calls,        \* HTTP requests; a repeated one makes the same request
  Scenarios     \* bound: what exists to start with, and what the calls ask

Managers == {"owner", "admin"}
Moderated == {"hidden", "published"}
Rosters == {"join", "leave", "remove", "transfer"}
Actions == Rosters \cup {"create", "found", "post", "announce", "edit", "comment", "like", "unlike"}

\* user is the member to remove or to transfer to; status is what an edit asks for.
Request == [actor : Users, id : Nat, action : Actions, user : Users, post : Nat,
            expected : Nat, status : Moderated \cup {"", "deleted"}, parent : Nat]

Member == [role : Managers \cup {"member", "none"}, status : {"none", "active", "left", "removed"}]
Post == [author : Users \cup {NoOne}, status : Moderated \cup {"deleted"}, version : Nat]
Comment == [post : Nat, author : Users, parent : Nat]
Event == [actor : Users, kind : {"post_created", "comment_created"}, post : Nat,
          recipient : Users \cup {NoOne}]
Result == [of : Actions \cup {"none", "error"}, post : Nat, version : Nat]
Saving == [request : Request, result : Result]

NoMember == [role |-> "none", status |-> "none"]
NoPost == [author |-> NoOne, status |-> "deleted", version |-> 0]

\* Without a community there are no members; it is created by one request.
ASSUME CommunityAssumption ==
  /\ NoOne \notin Users
  /\ \A s \in Scenarios :
       /\ s.asks \in [Calls -> Request]
       /\ s.owner \in Users \cup {NoOne}
       /\ s.member \in [Users -> Member]
       /\ s.posts \in Seq(Post)
       /\ IF s.owner = NoOne
            THEN \A u \in Users : s.member[u] = NoMember
            ELSE /\ {u \in Users : s.member[u].role = "owner"} = {s.owner}
                 /\ s.member[s.owner].status = "active"
       /\ \A c, d \in Calls :
            s.asks[c].action = "create" /\ s.asks[d].action \in {"create", "found"}
              => s.asks[c] = s.asks[d] /\ s.owner = NoOne

VARIABLES
  owner,      \* im_groups.owner_id, NoOne before the community exists
  member,     \* group_members
  seats,      \* conversation_members of the community's conversation
  posts,      \* community_posts, in the order of their creation
  comments,   \* community_comments
  likes,      \* community_reactions
  events,     \* community_event_outbox, as emitted
  requests,   \* community_requests, in the order of their commits
  asks,       \* the request that each call makes
  pc,         \* a call is new, working or done
  held,       \* the row locks of its transaction
  seen,       \* the rows as the transaction read them
  told        \* what the call was answered

roster == <<owner, member, seats>>
content == <<posts, comments, likes>>
callVars == <<pc, held, seen, told>>
vars == <<roster, content, events, requests, asks, callVars>>

NotTold == [of |-> "none", post |-> 0, version |-> 0]
Failed == [of |-> "error", post |-> 0, version |-> 0]
NoRows == [actor |-> NoMember, target |-> NoMember, post |-> NoPost]

Init ==
  /\ \E s \in Scenarios :
       /\ owner = s.owner
       /\ member = s.member
       /\ seats = {u \in Users : s.member[u].status = "active"}
       /\ posts = s.posts
       /\ asks = s.asks
  /\ comments = <<>>
  /\ likes = {}
  /\ events = <<>>
  /\ requests = <<>>
  /\ pc = [c \in Calls |-> "new"]
  /\ held = [c \in Calls |-> {}]
  /\ seen = [c \in Calls |-> NoRows]
  /\ told = [c \in Calls |-> NotTold]

-----------------------------------------------------------------------------
UserRow(u) == <<"user", u>>
MemberRow(u) == <<"member", u>>
PostRow(p) == <<"post", p>>
GroupRow == <<"group", "this">>
Rows == ({"user", "member"} \X Users) \cup ({"post"} \X Nat) \cup {GroupRow}

\* Faulty: neither the group nor the membership is locked to change the roster.
WantsUnlocked(r) ==
  CASE r.action \in Rosters \cup {"create"} -> <<UserRow(r.actor)>>
    [] r.action = "found" -> <<GroupRow>>
    [] r.action \in {"post", "announce"} ->
         <<UserRow(r.actor), GroupRow, MemberRow(r.actor)>>
    [] r.action \in {"edit", "comment"} ->
         <<UserRow(r.actor), PostRow(r.post), MemberRow(r.actor), GroupRow>>
    [] OTHER -> <<PostRow(r.post), MemberRow(r.actor), GroupRow>>

\* Faulty: an edit or a comment reads the role without FOR UPDATE.
WantsPostOnly(r) ==
  CASE r.action = "create" -> <<UserRow(r.actor)>>
    [] r.action = "found" -> <<GroupRow>>
    [] r.action = "join" -> <<UserRow(r.actor), GroupRow>>
    [] r.action \in {"leave", "post", "announce"} ->
         <<UserRow(r.actor), GroupRow, MemberRow(r.actor)>>
    [] r.action \in {"remove", "transfer"} ->
         <<UserRow(r.actor), GroupRow, MemberRow(r.actor), MemberRow(r.user)>>
    [] r.action \in {"edit", "comment"} -> <<UserRow(r.actor), PostRow(r.post)>>
    [] OTHER -> <<PostRow(r.post), MemberRow(r.actor), GroupRow>>

(* The rows a request locks with FOR UPDATE, in order.  role joins the     *)
(* membership and the group and locks both.  The INSERT of a group with an *)
(* id that its founder chose waits for another one of that id.             *)
Wants(r) ==
  CASE r.action = "create" -> <<UserRow(r.actor)>>
    [] r.action = "found" -> <<GroupRow>>
    [] r.action = "join" -> <<UserRow(r.actor), GroupRow>>
    [] r.action \in {"leave", "post", "announce"} ->
         <<UserRow(r.actor), GroupRow, MemberRow(r.actor)>>
    [] r.action \in {"remove", "transfer"} ->
         <<UserRow(r.actor), GroupRow, MemberRow(r.actor), MemberRow(r.user)>>
    [] r.action \in {"edit", "comment"} ->
         <<UserRow(r.actor), PostRow(r.post), MemberRow(r.actor), GroupRow>>
    [] OTHER -> <<PostRow(r.post), MemberRow(r.actor), GroupRow>>

Locked(c) == Cardinality(held[c])
AllLocked(c) == pc[c] = "working" /\ Locked(c) = Len(Wants(asks[c]))
NextRow(c) == Wants(asks[c])[Locked(c) + 1]

\* The transactions that hold the row c waits for: at most one.
Blockers(c) ==
  IF pc[c] = "working" /\ ~AllLocked(c)
    THEN {d \in Calls : NextRow(c) \in held[d]}
    ELSE {}

KeyOf(r) == <<r.actor, r.id>>

\* Faulty: community_requests is not consulted.
SavedNever(c) == {}

\* Liking and founding a group come without a request id.
HasNoId(r) == r.action \in {"like", "unlike", "found"}

\* The request found in community_requests.
Saved(c) ==
  {n \in DOMAIN requests :
     /\ ~HasNoId(asks[c])
     /\ KeyOf(requests[n].request) = KeyOf(asks[c])}

\* The call is answered and its transaction, if any, is over.
Answer(c, reply) ==
  /\ pc' = [pc EXCEPT ![c] = "done"]
  /\ told' = [told EXCEPT ![c] = reply]
  /\ held' = [held EXCEPT ![c] = {}]
  /\ seen' = [seen EXCEPT ![c] = NoRows]

(* BeginTx.                                                                *)
Begin(c) ==
  /\ pc[c] = "new"
  /\ pc' = [pc EXCEPT ![c] = "working"]
  /\ UNCHANGED <<roster, content, events, requests, asks, held, seen, told>>

\* Faulty: INSERT IGNORE.
IsFreeIgnored == TRUE

\* No group has the id; "group already exists" otherwise.
IsFree == owner = NoOne

\* What is looked at when a row is locked.
Passes(r, row) ==
  IF r.action = "found" THEN IsFree ELSE
  /\ row = GroupRow => owner # NoOne
  /\ row = PostRow(r.post) => /\ r.post \in DOMAIN posts
                              /\ r.action # "edit" => posts[r.post].status = "published"
  /\ row = MemberRow(r.actor) =>
       /\ member[r.actor].status = "active"
       /\ r.action \in {"remove", "transfer"} =>
            member[r.actor].role \in Managers /\ r.user # r.actor
  /\ row = MemberRow(r.user) => member[r.user].status = "active"

(* One FOR UPDATE.  What was read under the earlier locks is still true    *)
(* when the last one is granted.                                           *)
Lock(c) ==
  LET r == asks[c] IN
  /\ pc[c] = "working" /\ ~AllLocked(c)
  /\ held[c] # {} => Saved(c) = {}
  /\ Blockers(c) = {}
  /\ IF Passes(r, NextRow(c))
       THEN /\ held' = [held EXCEPT ![c] = @ \cup {NextRow(c)}]
            /\ seen' = [seen EXCEPT ![c] =
                 [actor |-> member[r.actor], target |-> member[r.user],
                  post |-> IF r.post \in DOMAIN posts THEN posts[r.post] ELSE NoPost]]
            /\ UNCHANGED <<pc, told>>
       ELSE Answer(c, Failed)
  /\ UNCHANGED <<roster, content, events, requests, asks>>

(* The request id is known: the saved result, or a conflict.               *)
Repeat(c) ==
  /\ pc[c] = "working" /\ held[c] # {}
  /\ \E n \in Saved(c) :
       Answer(c, IF requests[n].request = asks[c] THEN requests[n].result ELSE Failed)
  /\ UNCHANGED <<roster, content, events, requests, asks>>

-----------------------------------------------------------------------------
(* The rules of the operations, in terms of the rows as they were read.    *)
IsManager(c) == seen[c].actor.role \in Managers

MayRemove(c) ==
  /\ seen[c].target.role # "owner"
  /\ seen[c].actor.role = "owner" \/ seen[c].target.role = "member"

MayEdit(c) ==
  LET r == asks[c] IN
  /\ seen[c].post.status # "deleted"
  /\ IsManager(c) \/ r.actor = seen[c].post.author
  /\ seen[c].post.version = r.expected
  /\ r.status \in Moderated => IsManager(c)

\* A reply is to a comment of the same post that is no reply itself.
MayComment(r) ==
  r.parent # 0 => /\ r.parent \in DOMAIN comments
                  /\ comments[r.parent].post = r.post
                  /\ comments[r.parent].parent = 0

May(c) ==
  LET r == asks[c] IN
  CASE r.action = "join"     -> seen[c].actor.status # "removed"
    [] r.action = "leave"    -> seen[c].actor.role # "owner"
    [] r.action = "remove"   -> MayRemove(c)
    [] r.action = "transfer" -> seen[c].actor.role = "owner"
    [] r.action = "announce" -> IsManager(c)
    [] r.action = "edit"     -> MayEdit(c)
    [] r.action = "comment"  -> MayComment(r)
    [] OTHER                 -> TRUE

\* Faulty: the transaction of a refused call is left open.
RefuseLeaks(c) ==
  /\ AllLocked(c) /\ Saved(c) = {} /\ ~May(c)
  /\ pc' = [pc EXCEPT ![c] = "done"]
  /\ told' = [told EXCEPT ![c] = Failed]
  /\ UNCHANGED <<roster, content, events, requests, asks, held, seen>>

Refuse(c) ==
  /\ AllLocked(c) /\ Saved(c) = {} /\ ~May(c)
  /\ Answer(c, Failed)
  /\ UNCHANGED <<roster, content, events, requests, asks>>

Permitted(c, actions) ==
  asks[c].action \in actions /\ AllLocked(c) /\ Saved(c) = {} /\ May(c)

\* The request is saved and COMMIT succeeds; its answer may get lost.
Finish(c, post, version) ==
  LET result == [of |-> asks[c].action, post |-> post, version |-> version] IN
  /\ requests' = Append(requests, [request |-> asks[c], result |-> result])
  /\ \E reply \in {result, Failed} : Answer(c, reply)
  /\ UNCHANGED asks

Create(c) ==
  LET actor == asks[c].actor IN
  /\ Permitted(c, {"create"})
  /\ owner' = actor
  /\ member' = [member EXCEPT ![actor] = [role |-> "owner", status |-> "active"]]
  /\ seats' = {actor}
  /\ Finish(c, 0, 0)
  /\ UNCHANGED <<content, events>>

(* The older API: a group of a given id, with the members it names.        *)
Found(c) ==
  LET r == asks[c] IN
  /\ Permitted(c, {"found"})
  /\ owner' = r.actor
  /\ member' = [u \in Users |->
       IF u = r.actor THEN [role |-> "owner", status |-> "active"]
       ELSE IF u = r.user
         THEN [role |-> IF member[u].status = "none" THEN "member" ELSE member[u].role,
               status |-> "active"]
       ELSE member[u]]
  /\ seats' = seats \cup {r.actor, r.user}
  /\ \E reply \in {[of |-> "found", post |-> 0, version |-> 0], Failed} : Answer(c, reply)
  /\ UNCHANGED <<content, events, requests, asks>>

\* ON DUPLICATE KEY UPDATE keeps the role a former member had.
Join(c) ==
  LET actor == asks[c].actor IN
  /\ Permitted(c, {"join"})
  /\ member' = [member EXCEPT ![actor] =
       [role |-> IF @.status = "none" THEN "member" ELSE @.role, status |-> "active"]]
  /\ seats' = seats \cup {actor}
  /\ Finish(c, 0, 0)
  /\ UNCHANGED <<owner, content, events>>

Leave(c) ==
  LET r == asks[c]  target == IF r.action = "leave" THEN r.actor ELSE r.user IN
  /\ Permitted(c, {"leave", "remove"})
  /\ member' = [member EXCEPT ![target] =
       [@ EXCEPT !.status = IF r.action = "leave" THEN "left" ELSE "removed"]]
  /\ seats' = seats \ {target}
  /\ Finish(c, 0, 0)
  /\ UNCHANGED <<owner, content, events>>

Transfer(c) ==
  LET r == asks[c] IN
  /\ Permitted(c, {"transfer"})
  /\ member' = [member EXCEPT ![r.actor] = [@ EXCEPT !.role = "member"],
                              ![r.user] = [@ EXCEPT !.role = "owner"]]
  /\ owner' = r.user
  /\ Finish(c, 0, 0)
  /\ UNCHANGED <<seats, content, events>>

Emit(c, kind, post, recipient) ==
  events' = Append(events,
    [actor |-> asks[c].actor, kind |-> kind, post |-> post, recipient |-> recipient])

CreatePost(c) ==
  LET id == Len(posts) + 1 IN
  /\ Permitted(c, {"post", "announce"})
  /\ posts' = Append(posts, [author |-> asks[c].actor, status |-> "published", version |-> 1])
  /\ Emit(c, "post_created", id, NoOne)
  /\ Finish(c, id, 1)
  /\ UNCHANGED <<roster, comments, likes>>

\* UPDATE ... WHERE post_id = ? AND version = ?
EditPost(c) ==
  LET r == asks[c] IN
  /\ Permitted(c, {"edit"})
  /\ posts[r.post].version = r.expected
  /\ posts' = [posts EXCEPT ![r.post] =
       [@ EXCEPT !.version = r.expected + 1,
                 !.status = IF r.status = "" THEN seen[c].post.status ELSE r.status]]
  /\ Finish(c, r.post, r.expected + 1)
  /\ UNCHANGED <<roster, comments, likes, events>>

\* The author of the post, or of the comment replied to, is notified.
AddComment(c) ==
  LET r == asks[c]
      recipient == IF r.parent = 0 THEN seen[c].post.author ELSE comments[r.parent].author
  IN
  /\ Permitted(c, {"comment"})
  /\ comments' = Append(comments, [post |-> r.post, author |-> r.actor, parent |-> r.parent])
  /\ IF recipient = r.actor THEN UNCHANGED events ELSE Emit(c, "comment_created", r.post, recipient)
  /\ Finish(c, r.post, 0)
  /\ UNCHANGED <<roster, posts, likes>>

(* Outside of mutate: INSERT IGNORE or DELETE, repeatable as it is.        *)
Like(c) ==
  LET r == asks[c]  like == <<r.post, r.actor>> IN
  /\ Permitted(c, {"like", "unlike"})
  /\ likes' = IF r.action = "like" THEN likes \cup {like} ELSE likes \ {like}
  /\ \E reply \in {[of |-> r.action, post |-> r.post, version |-> 0], Failed} : Answer(c, reply)
  /\ UNCHANGED <<roster, posts, comments, events, requests, asks>>

-----------------------------------------------------------------------------
(* A statement or COMMIT fails, or the request's deadline passes.          *)
Abort(c) ==
  /\ pc[c] = "working"
  /\ Answer(c, Failed)
  /\ UNCHANGED <<roster, content, events, requests, asks>>

\* c waits in a circle of transactions, each for a row that the next one holds.
InCircle(c) ==
  \E S \in SUBSET {d \in Calls : Blockers(d) # {}} :
    c \in S /\ S = UNION {Blockers(d) : d \in S}

(* MySQL detects the deadlock and rolls one transaction back; nothing in   *)
(* the service tries again.                                                *)
Victim(c) ==
  /\ Blockers(c) # {} /\ InCircle(c)
  /\ Answer(c, Failed)
  /\ UNCHANGED <<roster, content, events, requests, asks>>

Progress(c) ==
  \/ Lock(c) \/ Repeat(c) \/ Refuse(c)
  \/ Create(c) \/ Found(c) \/ Join(c) \/ Leave(c) \/ Transfer(c)
  \/ CreatePost(c) \/ EditPost(c) \/ AddComment(c) \/ Like(c)

Next == \E c \in Calls : Begin(c) \/ Progress(c) \/ Abort(c) \/ Victim(c)

(* The goroutine of a request goes on, and MySQL's deadlock detection is   *)
(* on.  Nothing is assumed of failures or of deadlines.                    *)
Fairness ==
  /\ \A c \in Calls : WF_vars(Progress(c))
  /\ WF_vars(\E c \in Calls : Victim(c))

Spec == Init /\ [][Next]_vars

FairSpec == Spec /\ Fairness

-----------------------------------------------------------------------------
(* The tables hold rows, and a row is locked by one transaction at most.   *)
TypeOK ==
  /\ owner \in Users \cup {NoOne}
  /\ member \in [Users -> Member] /\ seats \subseteq Users
  /\ posts \in Seq(Post)
  /\ comments \in Seq(Comment) /\ likes \subseteq (DOMAIN posts) \X Users
  /\ events \in Seq(Event) /\ requests \in Seq(Saving)
  /\ asks \in [Calls -> Request] /\ told \in [Calls -> Result]
  /\ pc \in [Calls -> {"new", "working", "done"}]
  /\ seen \in [Calls -> [actor : Member, target : Member, post : Post]]
  /\ held \in [Calls -> SUBSET Rows]
  /\ \A c, d \in Calls : c # d => held[c] \cap held[d] = {}

(* The community has one owner, the one the group's row names, and he is a *)
(* member; exactly the members take part in the conversation - however     *)
(* transfers, removals, departures and returns of the same people race     *)
(* (Membership).                                                           *)
RosterAgrees ==
  /\ owner # NoOne =>
       /\ {u \in Users : member[u].role = "owner"} = {owner}
       /\ member[owner].status = "active"
  /\ seats = {u \in Users : member[u].status = "active"}

(* Who was removed does not come back, also not by a request to join or to *)
(* leave that was under way (service.go:176).                              *)
RemovedStaysOut ==
  [][ \A u \in Users : member[u].status = "removed" => member'[u].status = "removed" ]_vars

(* A post changes only from the version its editor knew, and only by the   *)
(* author or a manager who is one at that moment; hiding and publishing    *)
(* again are the managers', and a deleted post stays deleted (EditPost).   *)
EditsAreAuthorised ==
  [][ \A p \in DOMAIN posts : posts'[p] # posts[p] =>
        LET r == Last(requests').request  actor == member[r.actor] IN
        /\ requests' # requests /\ r.expected = posts[p].version
        /\ posts'[p].version = posts[p].version + 1 /\ posts[p].status # "deleted"
        /\ actor.status = "active" /\ (actor.role \in Managers \/ r.actor = posts[p].author)
        /\ posts'[p].status \notin {posts[p].status, "deleted"} => actor.role \in Managers ]_vars

\* What has no request id is outside of the ledger: nothing is ever told.
Ledger == INSTANCE RequestLedger WITH
  log <- requests,
  told <- [c \in Calls |-> IF HasNoId(asks[c]) THEN NotTold ELSE told[c]]

(* A request is carried out once however often it is sent, a request id    *)
(* never covers two requests, and a success tells what was done (mutate).  *)
ImplementsRequestLedger == Ledger!Spec

(* Every call is answered, although the operations lock rows in different  *)
(* orders: a comment locks the membership before the group, a removal the  *)
(* group before the membership (service.go:198, :478).                     *)
EveryCallEnds == \A c \in Calls : pc[c] = "working" ~> pc[c] = "done"

=============================================================================
