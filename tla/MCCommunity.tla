------------------------------ MODULE MCCommunity ------------------------------
(* A community is founded; its owner hands it over, removes and leaves     *)
(* while a member leaves and returns; a post is edited, hidden, commented  *)
(* on and liked while its author is removed.  Friend requests share no     *)
(* state with that: a behaviour is of one or the other.                    *)
EXTENDS Community, Friends, TLC

CONSTANTS olga, mia, adam, f1, f2, f3, f4

MCUsers == {olga, mia}
MCCalls == 1..4

Ask(actor, id, action) ==
  [actor |-> actor, id |-> id, action |-> action, user |-> mia, post |-> 1,
   expected |-> 1, status |-> "", parent |-> 0]

Active(role) == [role |-> role, status |-> "active"]
Team == olga :> Active("owner") @@ mia :> Active("member")
Start(asked, wall) == [asks |-> asked, owner |-> olga, member |-> Team, posts |-> wall]
MiasPost == [author |-> mia, status |-> "published", version |-> 1]

FoundIt == Ask(olga, 1, "create")
Return(id) == Ask(mia, id, "join")
Depart == Ask(mia, 1, "leave")
HandOver == Ask(olga, 1, "transfer")
Dismiss == Ask(olga, 2, "remove")
Edit == Ask(mia, 1, "edit")
Hide == [Ask(olga, 1, "edit") EXCEPT !.status = "hidden"]
Delete == [Ask(mia, 2, "edit") EXCEPT !.status = "deleted", !.expected = 2]
Reply == [Ask(mia, 3, "comment") EXCEPT !.parent = 1]

MCScenarios == {
  [asks |-> <<FoundIt, FoundIt, Return(1), Ask(mia, 2, "post")>>,
   owner |-> NoOne, member |-> [u \in MCUsers |-> NoMember], posts |-> <<>>],
  [asks |-> <<Ask(olga, 1, "found"), [Ask(mia, 1, "found") EXCEPT !.user = olga],
              Return(1), Ask(mia, 2, "leave")>>,
   owner |-> NoOne, member |-> [u \in MCUsers |-> NoMember], posts |-> <<>>],
  Start(<<HandOver, Depart, Dismiss, Return(2)>>, <<>>),
  Start(<<HandOver, Dismiss, Return(2), Return(2)>>, <<>>),
  Start(<<HandOver, Ask(olga, 3, "leave"), Depart, Ask(mia, 2, "announce")>>, <<>>),
  Start(<<Depart, Dismiss, Return(1), Return(2)>>, <<>>),
  Start(<<Edit, Hide, Delete, Dismiss>>, <<MiasPost>>),
  Start(<<Edit, Hide, Delete, HandOver>>, <<MiasPost>>),
  Start(<<Ask(olga, 3, "comment"), Reply, Hide, Dismiss>>, <<MiasPost>>),
  Start(<<Ask(mia, 3, "comment"), Ask(mia, 3, "comment"), Depart, Hide>>, <<MiasPost>>),
  Start(<<Ask(mia, 0, "like"), Ask(mia, 0, "unlike"), Depart, Hide>>, <<MiasPost>>)}

MCPeople == {olga, mia, adam}
MCRegistered == {olga, mia}
MCFriendCalls == {f1, f2, f3, f4}

Want(kind, from, to) == [kind |-> kind, from |-> from, to |-> to]

Contacts(pending, a, b, c, d) ==
  [wants |-> f1 :> a @@ f2 :> b @@ f3 :> c @@ f4 :> d,
   request |-> [pair \in MCPeople \X MCPeople |-> IF pair \in pending THEN "pending" ELSE "none"]]

NoContacts ==
  LET self == Want("apply", olga, olga) IN Contacts({}, self, self, self, self)

MCFriendScenarios ==
  { Contacts({<<olga, mia>>, <<mia, olga>>},
      Want("accept", olga, mia), Want("accept", mia, olga),
      Want("apply", olga, mia), Want("reject", olga, mia)),
    Contacts({},
      Want("apply", olga, mia), Want("apply", mia, adam),
      Want("reject", olga, mia), Want("accept", olga, mia)) }

MCInit ==
  \/ Init /\ FriendsStartAs(NoContacts)
  \/ /\ Init /\ owner = NoOne /\ asks[1].action = "create"
     /\ \E s \in FriendScenarios : FriendsStartAs(s)

MCNext ==
  \/ wants = NoContacts.wants /\ Next /\ UNCHANGED friendVars
  \/ wants # NoContacts.wants /\ FriendNext /\ UNCHANGED vars

MCSpec ==
  /\ MCInit /\ [][MCNext]_<<vars, friendVars>>
  /\ Fairness /\ FriendFairness

=============================================================================
