-------------------------- MODULE MCConversationList --------------------------
(* Two messages of a chat or a group, the first delivered twice, in any    *)
(* order, while their sender logs in, leaves the group and comes back.     *)
(* The walks through pages and the replays share no state with that: a     *)
(* behaviour is of one or the other, and they are checked side by side.    *)
EXTENDS ConversationList, ReconnectReplay, TLC

CONSTANTS alice, bob, conv, j1, j2, j3, r1, r2, r3, r4

MCUsers == {alice, bob}
MCCallers == {bob}
MCConversations == {conv}
MCMessages == {1, 2}
MCConvOf == [m \in MCMessages |-> conv]
MCSeqNo == [m \in MCMessages |-> m]
MCFromOf == [m \in MCMessages |-> bob]
MCJobs == {j1, j2, j3}
MCMessageOf == j1 :> 1 @@ j2 :> 2 @@ j3 :> 1

MCRows == {r1, r2, r3, r4}

At(key, status) == [key |-> key, status |-> status]
NotYet == At(0, "none")

\* Four rows by key, the last of which may be inserted during the walk.
Rowset(a, b, c, d) == r1 :> a @@ r2 :> b @@ r3 :> c @@ r4 :> d
Plain(status) == Rowset(At(1, status), At(3, status), At(4, status), NotYet)

NoWalk ==
  [endpoint |-> "none", role |-> "member", rows |-> Plain("there"), filter |-> "published",
   oldSchema |-> FALSE, group |-> TRUE, sync |-> FALSE, baseline |-> 0,
   heartbeat |-> FALSE, unacked |-> {}, remembered |-> {}]

Walk(endpoint, role, rows) ==
  [NoWalk EXCEPT !.endpoint = endpoint, !.role = role, !.rows = rows]
History(old, group, sync, baseline) ==
  [Walk("history", "member", Rowset(At(1, "there"), At(2, "there"), At(4, "there"), NotYet))
     EXCEPT !.oldSchema = old, !.group = group, !.sync = sync, !.baseline = baseline]
Replay(heartbeat, baseline, unacked, remembered) ==
  [Walk("replay", "member", Plain("there"))
     EXCEPT !.heartbeat = heartbeat, !.baseline = baseline,
            !.unacked = unacked, !.remembered = remembered]

Drafts == Rowset(At(1, "published"), At(3, "draft"), At(4, "published"), NotYet)
Feed == Rowset(At(1, "published"), At(3, "published"), At(9, "published"), At(2, "hidden"))

MCWalks ==
  { History(FALSE, TRUE, FALSE, 0), History(TRUE, FALSE, FALSE, 0),
    History(FALSE, TRUE, TRUE, 0), History(FALSE, FALSE, TRUE, 1),
    Walk("tasks", "member", Drafts), Walk("tasks", "manager", Drafts),
    Walk("submissions", "manager", Plain("there")),
    Walk("feed", "member", Feed),
    [Walk("feed", "manager", Feed) EXCEPT !.filter = "hidden"],
    Replay(FALSE, 0, {r2}, {r1, r2}), Replay(FALSE, 1, {r1, r3}, {r3}),
    Replay(TRUE, 0, {}, {r2, r3}) }

MCInit ==
  /\ ListInit
  /\ \/ WalkStarts(NoWalk) /\ ReplayStarts(NoWalk)
     \/ groups = {} /\ ReadInit

MCNext ==
  \/ walk = NoWalk /\ ListNext /\ UNCHANGED <<readVars, replayVars>>
  \/ walk # NoWalk /\ ReadNext /\ UNCHANGED listVars

MCSpec == MCInit /\ [][MCNext]_<<listVars, readVars, replayVars>>

=============================================================================
