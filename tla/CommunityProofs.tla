---------------------------- MODULE CommunityProofs ----------------------------
(***************************************************************************)
(* Proofs about Community and Friends, for any number of users, posts and  *)
(* requests and every scenario that the assumptions admit.  The two share  *)
(* no state, and each has its own specification.                           *)
(***************************************************************************)
EXTENDS Community, Friends, FiniteSetTheorems, SequenceTheorems, TLAPS

(* A transaction holds the rows that it wants, up to the one it has come   *)
(* to, in their order.                                                     *)
HoldsPrefix(c) ==
  /\ IsFiniteSet(held[c]) /\ Locked(c) \in 0..Len(Wants(asks[c]))
  /\ held[c] = {Wants(asks[c])[n] : n \in 1..Locked(c)}
  /\ pc[c] # "working" => held[c] = {}
  /\ asks[c].action \in {"remove", "transfer"} /\ asks[c].user = asks[c].actor => Locked(c) <= 2

PrefixesHeld == \A c \in Calls : HoldsPrefix(c)

(* What was looked at when a row was locked is so while it is locked.      *)
GroupIsAsRead(c) ==
  GroupRow \in held[c] =>
    /\ owner = NoOne <=> asks[c].action = "found"
    /\ seen[c].actor = member[asks[c].actor] /\ seen[c].target = member[asks[c].user]

MembersAreActive(c) ==
  /\ MemberRow(asks[c].actor) \in held[c] => member[asks[c].actor].status = "active"
  /\ MemberRow(asks[c].user) \in held[c] /\ asks[c].action \in {"remove", "transfer"}
       => member[asks[c].user].status = "active"

PostIsAsRead(c) ==
  PostRow(asks[c].post) \in held[c] =>
    asks[c].post \in DOMAIN posts /\ seen[c].post = posts[asks[c].post]

RowsAreAsRead ==
  \A c \in Calls : GroupIsAsRead(c) /\ MembersAreActive(c) /\ PostIsAsRead(c)

(* There is no member before there is a community.                         *)
NoGroupNoMembers == owner = NoOne => \A u \in Users : member[u] = NoMember

(* The creation of the community, if asked for, is one request, and a      *)
(* community that is there has its record.                                 *)
CreationsAgree ==
  \A c, d \in Calls :
    asks[c].action = "create" /\ asks[d].action \in {"create", "found"} => asks[c] = asks[d]

CreatedByRequest ==
  \A c \in Calls : asks[c].action = "create" /\ owner # NoOne => Saved(c) # {}

AnsweredAtTheEnd == \A c \in Calls : pc[c] # "done" => told[c] = NotTold

CInv ==
  /\ TypeOK
  /\ PrefixesHeld
  /\ RowsAreAsRead
  /\ RosterAgrees
  /\ NoGroupNoMembers
  /\ CreationsAgree
  /\ CreatedByRequest
  /\ AnsweredAtTheEnd

-----------------------------------------------------------------------------
(* An answer that accepts or rejects holds the request's row from the      *)
(* UPDATE that found it pending to the COMMIT.                             *)
Answering(c) == at[c] \in {"relate", "relate back", "commit"}

RequestIsHeld ==
  \A c \in FriendCalls :
    /\ Answering(c) => RequestRow(PairOf(c)) \in holds[c] /\ request[PairOf(c)] = "pending"
    /\ at[c] \in {"new", "upsert"} => holds[c] = {}

RequestRowsAreExclusive ==
  \A c, d \in FriendCalls, pair \in Pairs :
    RequestRow(pair) \in holds[c] \cap holds[d] => c = d

FriendRows == {RequestRow(pair) : pair \in Pairs} \cup {RelationRow(pair) : pair \in Pairs}

FriendsTypeOK ==
  /\ wants \in [FriendCalls -> [kind : {"apply", "accept", "reject"}, from : People, to : People]]
  /\ request \in [Pairs -> {"none", "pending", "accepted", "rejected"}]
  /\ friends \subseteq Pairs
  /\ at \in [FriendCalls -> {"new", "upsert", "relate", "relate back", "commit", "done"}]
  /\ holds \in [FriendCalls -> SUBSET FriendRows]
  /\ \A c \in FriendCalls : Answering(c) => wants[c].kind # "apply"
  /\ \A c \in FriendCalls : at[c] \in {"relate", "relate back"} => wants[c].kind = "accept"

FInv == FriendsTypeOK /\ RequestIsHeld /\ RequestRowsAreExclusive

LEMMA FriendsInit == FriendInit => FInv
<1> SUFFICES ASSUME NEW s \in FriendScenarios, FriendsStartAs(s) PROVE FInv
  BY DEF FriendInit
<1>1. FriendsTypeOK
  BY FriendsAssumption DEF FriendsStartAs, FriendsTypeOK, Answering
<1>2. RequestIsHeld /\ RequestRowsAreExclusive
  BY DEF FriendsStartAs, RequestIsHeld, RequestRowsAreExclusive, Answering
<1>3. QED
  BY <1>1, <1>2 DEF FInv

LEMMA PairsAndRows ==
  /\ FriendsTypeOK => \A c \in FriendCalls : PairOf(c) \in Pairs /\ Reversed(PairOf(c)) \in Pairs
  /\ \A p, q \in Pairs : RequestRow(p) = RequestRow(q) => p = q
  /\ \A p, q \in Pairs : RequestRow(p) # RelationRow(q)
  /\ \A p \in Pairs : RequestRow(p) \in FriendRows /\ RelationRow(p) \in FriendRows
BY DEF FriendsTypeOK, PairOf, Reversed, Pairs, RequestRow, RelationRow, FriendRows

(* The end of a call takes nothing from the others.                        *)
LEMMA HearKeeps ==
  ASSUME FInv, NEW c \in FriendCalls, NEW reply, Hear(c, reply),
         UNCHANGED wants, friends' \subseteq Pairs,
         UNCHANGED request
         \/ /\ \E status \in {"pending", "accepted", "rejected"} :
                 request' = [request EXCEPT ![PairOf(c)] = status]
            /\ \A d \in FriendCalls \ {c} : Answering(d) => PairOf(d) # PairOf(c)
  PROVE  FInv'
<1>1. /\ at' = [at EXCEPT ![c] = "done"] /\ holds' = [holds EXCEPT ![c] = {}]
      /\ PairOf(c) \in Pairs
  BY PairsAndRows DEF Hear, FInv
<1>2. request' \in [Pairs -> {"none", "pending", "accepted", "rejected"}]
  BY <1>1 DEF FInv, FriendsTypeOK
<1>3. FriendsTypeOK'
  BY <1>1, <1>2 DEF FInv, FriendsTypeOK, Answering
<1>4. RequestIsHeld'
  <2> SUFFICES ASSUME NEW d \in FriendCalls
               PROVE  /\ Answering(d)' =>
                           RequestRow(PairOf(d))' \in holds'[d] /\ request'[PairOf(d)'] = "pending"
                      /\ at'[d] \in {"new", "upsert"} => holds'[d] = {}
    BY DEF RequestIsHeld
  <2>1. PairOf(d)' = PairOf(d) /\ RequestRow(PairOf(d))' = RequestRow(PairOf(d)) /\ PairOf(d) \in Pairs
    BY PairsAndRows DEF PairOf, RequestRow, FInv
  <2>2. CASE d = c
    BY <1>1, <2>2 DEF Answering, FInv, FriendsTypeOK
  <2>3. CASE d # c
    <3>1. at'[d] = at[d] /\ holds'[d] = holds[d]
      BY <1>1, <2>3 DEF FInv, FriendsTypeOK
    <3>2. Answering(d) => request'[PairOf(d)] = request[PairOf(d)]
      BY <1>1, <2>1, <2>3 DEF FInv, FriendsTypeOK
    <3>3. QED
      BY <2>1, <3>1, <3>2 DEF Answering, FInv, RequestIsHeld
  <2>4. QED
    BY <2>2, <2>3
<1>5. RequestRowsAreExclusive'
  BY <1>1 DEF FInv, FriendsTypeOK, RequestRowsAreExclusive, RequestRow
<1>6. QED
  BY <1>3, <1>4, <1>5 DEF FInv

LEMMA FriendsStep == FInv /\ [FriendNext]_friendVars => FInv'
<1> SUFFICES ASSUME FInv, [FriendNext]_friendVars PROVE FInv'
  OBVIOUS
<1>1. FriendsTypeOK /\ RequestIsHeld /\ RequestRowsAreExclusive
  BY DEF FInv
<1>2. ASSUME NEW c \in FriendCalls, NEW reply, Hear(c, reply), UNCHANGED <<wants, request, friends>>
      PROVE  FInv'
  BY <1>1, <1>2, HearKeeps DEF FriendsTypeOK
<1>3. ASSUME NEW c \in FriendCalls, Apply(c) PROVE FInv'
  <2>1. CASE Hear(c, "error") \/ Hear(c, "accepted")
    BY <1>2, <1>3, <2>1 DEF Apply
  <2>2. CASE at' = [at EXCEPT ![c] = "upsert"] /\ UNCHANGED <<holds, heard>>
    <3>1. UNCHANGED <<wants, request, friends, holds>> /\ at[c] = "new" /\ wants[c].kind = "apply"
      BY <1>3, <2>2 DEF Apply
    <3>2. FriendsTypeOK'
      BY <1>1, <2>2, <3>1 DEF FriendsTypeOK, Answering
    <3>3. RequestIsHeld'
      BY <1>1, <2>2, <3>1 DEF FriendsTypeOK, RequestIsHeld, Answering, PairOf, RequestRow
    <3>4. RequestRowsAreExclusive'
      BY <1>1, <3>1 DEF RequestRowsAreExclusive, RequestRow
    <3>5. QED
      BY <3>2, <3>3, <3>4 DEF FInv
  <2>3. QED
    BY <1>3, <2>1, <2>2 DEF Apply
<1>4. ASSUME NEW c \in FriendCalls, UpsertRequest(c) PROVE FInv'
  <2>1. \A d \in FriendCalls \ {c} : Answering(d) => PairOf(d) # PairOf(c)
    BY <1>1, <1>4 DEF UpsertRequest, Holders, RequestIsHeld
  <2>2. PICK reply : Hear(c, reply)
    BY <1>4 DEF UpsertRequest
  <2>3. /\ request' = [request EXCEPT ![PairOf(c)] = "pending"]
        /\ UNCHANGED wants /\ friends' \subseteq Pairs
    BY <1>1, <1>4 DEF UpsertRequest, FriendsTypeOK
  <2>4. QED
    BY <2>1, <2>2, <2>3, HearKeeps
<1>5. ASSUME NEW c \in FriendCalls, Respond(c) PROVE FInv'
  <2>1. CASE Hear(c, "error")
    BY <1>2, <1>5, <2>1 DEF Respond
  <2>2. CASE Answerable(PairOf(c))
    <3>1. /\ at' = [at EXCEPT ![c] = IF wants[c].kind = "accept" THEN "relate" ELSE "commit"]
          /\ holds' = [holds EXCEPT ![c] = @ \cup {RequestRow(PairOf(c))}]
          /\ UNCHANGED <<wants, request, friends>> /\ wants[c].kind # "apply" /\ at[c] = "new"
          /\ \A d \in FriendCalls : RequestRow(PairOf(c)) \notin holds[d]
      BY <1>5, <2>2 DEF Respond, GoOn, Holders
    <3>2. PairOf(c) \in Pairs /\ request[PairOf(c)] = "pending" /\ holds[c] = {}
      BY <1>1, <2>2, <3>1, PairsAndRows DEF Answerable, RequestIsHeld
    <3>3. FriendsTypeOK'
      <4>1. holds' \in [FriendCalls -> SUBSET FriendRows]
        <5>1. RequestRow(PairOf(c)) \in FriendRows /\ holds \in [FriendCalls -> SUBSET FriendRows]
          BY <1>1, <3>2, PairsAndRows DEF FriendsTypeOK
        <5>2. QED
          BY <3>1, <5>1
      <4>2. \A d \in FriendCalls :
              /\ Answering(d)' => wants'[d].kind # "apply"
              /\ at'[d] \in {"relate", "relate back"} => wants'[d].kind = "accept"
        BY <1>1, <3>1 DEF FriendsTypeOK, Answering
      <4>3. QED
        BY <1>1, <3>1, <4>1, <4>2 DEF FriendsTypeOK
    <3>4. RequestIsHeld'
      BY <1>1, <3>1, <3>2 DEF FriendsTypeOK, RequestIsHeld, Answering, PairOf, RequestRow
    <3>5. RequestRowsAreExclusive'
      BY <1>1, <3>1, <3>2, PairsAndRows DEF FriendsTypeOK, RequestRowsAreExclusive
    <3>6. QED
      BY <3>3, <3>4, <3>5 DEF FInv
  <2>3. QED
    BY <1>5, <2>1, <2>2 DEF Respond
<1>6. ASSUME NEW c \in FriendCalls, UpsertRelation(c) PROVE FInv'
  <2>1. PICK pair \in Pairs : NextRelation(c) = RelationRow(pair)
    BY <1>1, PairsAndRows DEF NextRelation
  <2>2. /\ at' = [at EXCEPT ![c] = IF at[c] = "relate" THEN "relate back" ELSE "commit"]
        /\ holds' = [holds EXCEPT ![c] = @ \cup {RelationRow(pair)}]
        /\ UNCHANGED <<wants, request, friends>> /\ at[c] \in {"relate", "relate back"}
    BY <1>6, <2>1 DEF UpsertRelation, GoOn
  <2>3. FriendsTypeOK'
    <3>1. holds' \in [FriendCalls -> SUBSET FriendRows]
      <4>1. RelationRow(pair) \in FriendRows /\ holds \in [FriendCalls -> SUBSET FriendRows]
        BY <1>1, PairsAndRows DEF FriendsTypeOK
      <4>2. QED
        BY <2>2, <4>1
    <3>2. \A d \in FriendCalls :
            /\ Answering(d)' => wants'[d].kind # "apply"
            /\ at'[d] \in {"relate", "relate back"} => wants'[d].kind = "accept"
      BY <1>1, <2>2 DEF FriendsTypeOK, Answering
    <3>3. QED
      BY <1>1, <2>2, <3>1, <3>2 DEF FriendsTypeOK
  <2>4. RequestIsHeld'
    BY <1>1, <2>2 DEF FriendsTypeOK, RequestIsHeld, Answering, PairOf, RequestRow
  <2>5. RequestRowsAreExclusive'
    <3>1. \A d \in FriendCalls, p \in Pairs :
            RequestRow(p) \in holds'[d] => RequestRow(p) \in holds[d]
      BY <1>1, <2>2, PairsAndRows DEF FriendsTypeOK
    <3>2. QED
      BY <1>1, <3>1 DEF RequestRowsAreExclusive, RequestRow
  <2>6. QED
    BY <2>3, <2>4, <2>5 DEF FInv
<1>7. ASSUME NEW c \in FriendCalls, Commit(c) PROVE FInv'
  <2>1. PairOf(c) \in Pairs /\ Reversed(PairOf(c)) \in Pairs
    BY <1>1, PairsAndRows
  <2>2. \A d \in FriendCalls \ {c} : Answering(d) => PairOf(d) # PairOf(c)
    BY <1>1, <1>7, <2>1 DEF Commit, Answering, RequestIsHeld, RequestRowsAreExclusive
  <2>3. PICK reply : Hear(c, reply)
    BY <1>7 DEF Commit
  <2>4. /\ \E status \in {"pending", "accepted", "rejected"} :
             request' = [request EXCEPT ![PairOf(c)] = status]
        /\ UNCHANGED wants /\ friends' \subseteq Pairs
    BY <1>1, <1>7, <2>1 DEF Commit, FriendsTypeOK
  <2>5. QED
    BY <2>2, <2>3, <2>4, HearKeeps
<1>8. ASSUME NEW c \in FriendCalls, RollBack(c) \/ DeadlockVictim(c) PROVE FInv'
  BY <1>2, <1>8 DEF RollBack, DeadlockVictim
<1>9. CASE UNCHANGED friendVars
  BY <1>1, <1>9 DEF friendVars, FInv, FriendsTypeOK, RequestIsHeld, RequestRowsAreExclusive,
     Answering, PairOf, RequestRow
<1>10. QED
  BY <1>3, <1>4, <1>5, <1>6, <1>7, <1>8, <1>9 DEF FriendNext, FriendStep

(* People become friends only by an answer to a request that is pending at *)
(* that moment, in both directions at once (friendlogic.go:94-113), for    *)
(* any number of people and of calls that race.                            *)
THEOREM FriendsConsent == FriendSpec => FriendsByConsent
<1>1. ASSUME FInv, [FriendNext]_friendVars, friends' # friends
      PROVE  \E c \in FriendCalls :
               /\ at[c] # "done" /\ at'[c] = "done" /\ wants[c].kind = "accept"
               /\ request[PairOf(c)] = "pending" /\ request'[PairOf(c)] = "accepted"
               /\ friends' = friends \cup {PairOf(c), Reversed(PairOf(c))}
  <2>1. PICK c \in FriendCalls : Commit(c)
    BY <1>1 DEF FriendNext, FriendStep, Apply, UpsertRequest, Respond, UpsertRelation,
                RollBack, DeadlockVictim, friendVars
  <2>2. wants[c].kind = "accept"
    BY <1>1, <2>1 DEF Commit
  <2>3. PairOf(c) \in Pairs /\ request[PairOf(c)] = "pending"
    BY <1>1, <2>1, PairsAndRows DEF FInv, RequestIsHeld, Answering, Commit
  <2>4. /\ request' = [request EXCEPT ![PairOf(c)] = "accepted"] /\ at' = [at EXCEPT ![c] = "done"]
        /\ at[c] = "commit" /\ friends' = friends \cup {PairOf(c), Reversed(PairOf(c))}
    BY <2>1, <2>2 DEF Commit, Hear
  <2>5. QED
    BY <1>1, <2>2, <2>3, <2>4 DEF FInv, FriendsTypeOK
<1>2. FInv /\ [FriendNext]_friendVars =>
        [ friends' # friends =>
            \E c \in FriendCalls :
              /\ at[c] # "done" /\ at'[c] = "done" /\ wants[c].kind = "accept"
              /\ request[PairOf(c)] = "pending" /\ request'[PairOf(c)] = "accepted"
              /\ friends' = friends \cup {PairOf(c), Reversed(PairOf(c))} ]_friendVars
  BY <1>1
<1>3. FriendSpec => []FInv
  BY FriendsInit, FriendsStep, PTL DEF FriendSpec
<1>4. QED
  BY <1>2, <1>3, PTL DEF FriendSpec, FriendsByConsent

-----------------------------------------------------------------------------
(* The rows of different kinds, and of different users, are different.     *)
LEMMA RowsDiffer ==
  /\ \A u, v \in Users : MemberRow(u) = MemberRow(v) => u = v
  /\ \A u, v \in Users : UserRow(u) # MemberRow(v)
  /\ \A u \in Users : GroupRow # UserRow(u) /\ GroupRow # MemberRow(u)
  /\ \A p \in Nat, u \in Users : PostRow(p) # UserRow(u) /\ PostRow(p) # MemberRow(u)
  /\ \A p \in Nat : PostRow(p) # GroupRow
  /\ \A u \in Users : UserRow(u) \in Rows /\ MemberRow(u) \in Rows
  /\ \A p \in Nat : PostRow(p) \in Rows
  /\ GroupRow \in Rows
  /\ \A u \in Users : UserRow(u)[1] = "user" /\ MemberRow(u)[1] = "member"
  /\ \A p \in Nat : PostRow(p)[1] = "post"
  /\ GroupRow[1] = "group"
BY DEF UserRow, MemberRow, PostRow, GroupRow, Rows

RowsOf(r) ==
  {UserRow(r.actor), GroupRow, MemberRow(r.actor), MemberRow(r.user), PostRow(r.post)}

(* The rows that a request wants (Wants): at most four, different ones     *)
(* unless somebody removes himself or hands over to himself.               *)
LEMMA WantsRows ==
  ASSUME NEW r \in Request
  PROVE  /\ Wants(r) \in Seq(RowsOf(r)) /\ Len(Wants(r)) \in 1..4
         /\ \A m, n \in 1..Len(Wants(r)) : m < n =>
              \/ Wants(r)[m] # Wants(r)[n]
              \/ r.action \in {"remove", "transfer"} /\ r.user = r.actor /\ n = 4
         /\ r.action \in {"remove", "transfer"} => Wants(r)[3] = MemberRow(r.actor)
         /\ \E n \in 1..Len(Wants(r)) :
              Wants(r)[n] = IF r.action = "create" THEN UserRow(r.actor) ELSE GroupRow
         /\ r.action \in {"leave", "post", "announce", "remove", "transfer", "edit", "comment"}
              => \E n \in 1..Len(Wants(r)) : Wants(r)[n] = MemberRow(r.actor)
         /\ r.action \in {"remove", "transfer"}
              => \E n \in 1..Len(Wants(r)) : Wants(r)[n] = MemberRow(r.user)
         /\ r.action \in {"edit", "comment", "like", "unlike"}
              => \E n \in 1..Len(Wants(r)) : Wants(r)[n] = PostRow(r.post)
         /\ r.action = "found" => Wants(r) = <<GroupRow>>
         /\ r.action = "create" => Wants(r) = <<UserRow(r.actor)>>
<1>1. r.actor \in Users /\ r.user \in Users /\ r.post \in Nat /\ r.action \in Actions
  BY DEF Request
<1> DEFINE U == UserRow(r.actor)
           A == MemberRow(r.actor)
           M == MemberRow(r.user)
           P == PostRow(r.post)
           G == GroupRow
           RowsR == {U, G, A, M, P}
<1>2. U # A /\ U # M /\ U # G /\ A # G /\ M # G /\ P # U /\ P # A /\ P # M /\ P # G
  BY <1>1, RowsDiffer
<1>3. A = M => r.user = r.actor
  BY <1>1, RowsDiffer
<1>4. CASE r.action = "create"
  <2>1. Wants(r) = <<U>>
    BY <1>4 DEF Wants
  <2> HIDE DEF U, A, M, P, G
  <2>2. QED
    BY <1>2, <1>4, <2>1 DEF RowsOf, U
<1>5. CASE r.action = "found"
  <2>1. Wants(r) = <<G>>
    BY <1>5 DEF Wants
  <2> HIDE DEF U, A, M, P, G
  <2>2. QED
    BY <1>2, <1>5, <2>1 DEF RowsOf, G
<1>6. CASE r.action = "join"
  <2>1. Wants(r) = <<U, G>>
    BY <1>6 DEF Wants
  <2> HIDE DEF U, A, M, P, G
  <2>2. QED
    BY <1>2, <1>6, <2>1 DEF RowsOf, U, G
<1>7. CASE r.action \in {"leave", "post", "announce"}
  <2>1. Wants(r) = <<U, G, A>>
    BY <1>7 DEF Wants
  <2> HIDE DEF U, A, M, P, G
  <2>2. QED
    BY <1>2, <1>7, <2>1 DEF RowsOf, U, G, A
<1>8. CASE r.action \in {"remove", "transfer"}
  <2>1. Wants(r) = <<U, G, A, M>>
    BY <1>8 DEF Wants
  <2> HIDE DEF U, A, M, P, G
  <2>2. QED
    BY <1>2, <1>3, <1>8, <2>1 DEF RowsOf, U, G, A, M
<1>9. CASE r.action \in {"edit", "comment"}
  <2>1. Wants(r) = <<U, P, A, G>>
    BY <1>9 DEF Wants
  <2> HIDE DEF U, A, M, P, G
  <2>2. QED
    BY <1>2, <1>9, <2>1 DEF RowsOf, U, G, A, P
<1>10. CASE r.action \in {"like", "unlike"}
  <2>1. Wants(r) = <<P, A, G>>
    BY <1>10 DEF Wants
  <2> HIDE DEF U, A, M, P, G
  <2>2. QED
    BY <1>2, <1>10, <2>1 DEF RowsOf, G, A, P
<1>11. QED
  BY <1>1, <1>4, <1>5, <1>6, <1>7, <1>8, <1>9, <1>10 DEF Actions, Rosters

LEMMA CallTypes ==
  ASSUME TypeOK, NEW c \in Calls
  PROVE  /\ asks[c] \in Request /\ asks[c].actor \in Users /\ asks[c].user \in Users
         /\ asks[c].post \in Nat /\ asks[c].action \in Actions
         /\ seen[c].actor \in Member /\ seen[c].target \in Member /\ seen[c].post \in Post
         /\ held[c] \in SUBSET Rows
BY DEF TypeOK, Request

(* What the FOR UPDATE of a row tells (Passes).                            *)
LEMMA PassesMeans ==
  ASSUME NEW r \in Request, NEW row, Passes(r, row)
  PROVE  /\ r.action = "found" => owner = NoOne
         /\ r.action # "found" =>
              /\ row = GroupRow => owner # NoOne
              /\ row = PostRow(r.post) => r.post \in DOMAIN posts
              /\ row = MemberRow(r.actor) =>
                   /\ member[r.actor].status = "active"
                   /\ r.action \in {"remove", "transfer"} => r.user # r.actor
              /\ row = MemberRow(r.user) => member[r.user].status = "active"
BY DEF Passes, IsFree

(* The next FOR UPDATE adds the next row, which was not held yet.          *)
LEMMA LockGrows ==
  ASSUME TypeOK, NEW c \in Calls, HoldsPrefix(c), pc[c] = "working", ~AllLocked(c),
         Passes(asks[c], NextRow(c)), UNCHANGED <<asks, pc>>,
         held' = [held EXCEPT ![c] = @ \cup {NextRow(c)}]
  PROVE  /\ HoldsPrefix(c)' /\ NextRow(c) \in RowsOf(asks[c])
         /\ asks[c].action = "found" => NextRow(c) = GroupRow
         /\ asks[c].action \in {"remove", "transfer"} /\ NextRow(c) = MemberRow(asks[c].user)
              => asks[c].user # asks[c].actor
<1> DEFINE r == asks[c]
           W == Wants(r)
           k == Locked(c)
           row == NextRow(c)
<1>1. r \in Request /\ held[c] \in SUBSET Rows /\ r.actor \in Users /\ r.user \in Users /\ r.post \in Nat
  BY CallTypes
<1>2. /\ W \in Seq(RowsOf(r)) /\ Len(W) \in 1..4
      /\ \A m, n \in 1..Len(W) : m < n =>
           W[m] # W[n] \/ (r.action \in {"remove", "transfer"} /\ r.user = r.actor /\ n = 4)
      /\ r.action \in {"remove", "transfer"} => W[3] = MemberRow(r.actor)
      /\ r.action = "found" => W = <<GroupRow>>
  BY <1>1, WantsRows
<1>3. /\ IsFiniteSet(held[c]) /\ k \in 0..Len(W) /\ held[c] = {W[n] : n \in 1..k}
      /\ r.action \in {"remove", "transfer"} /\ r.user = r.actor => k <= 2
  BY DEF HoldsPrefix
<1>4. k \in 0..(Len(W) - 1) /\ row = W[k + 1]
  BY <1>2, <1>3 DEF AllLocked, NextRow
<1>5. row \in RowsOf(r) /\ (r.action = "found" => row = GroupRow)
  <2>1. k + 1 \in 1..Len(W)
    BY <1>2, <1>4
  <2>2. W[k + 1] \in RowsOf(r)
    BY <1>2, <2>1
  <2>3. r.action = "found" => k = 0 /\ W = <<GroupRow>>
    <3>1. SUFFICES ASSUME r.action = "found" PROVE k = 0 /\ W = <<GroupRow>>
      OBVIOUS
    <3>2. W = <<GroupRow>> /\ Len(<<GroupRow>>) = 1
      BY <1>2, <3>1
    <3>3. k \in 0..0
      BY <1>4, <3>2
    <3>4. QED
      BY <3>2, <3>3
  <2>4. QED
    BY <1>2, <1>4, <2>2, <2>3
<1>6. row \notin held[c]
  <2>1. SUFFICES ASSUME NEW n \in 1..k, row = W[n] PROVE FALSE
    BY <1>3
  <2>2. n \in 1..Len(W) /\ k + 1 \in 1..Len(W) /\ n < k + 1
    BY <1>2, <1>4
  <2>3. r.action \in {"remove", "transfer"} /\ r.user = r.actor /\ k + 1 = 4
    BY <1>2, <1>4, <2>1, <2>2
  <2>4. QED
    BY <1>3, <2>3
<1>7. held'[c] = held[c] \cup {row} /\ r' = r /\ W' = W
  BY DEF TypeOK
<1>8. IsFiniteSet(held'[c]) /\ k' = k + 1
  BY <1>3, <1>6, <1>7, FS_AddElement DEF Locked
<1>9. held'[c] = {W[n] : n \in 1..k + 1}
  <2>1. k \in Nat
    BY <1>2, <1>4
  <2>2. 1..k + 1 = (1..k) \cup {k + 1}
    BY <2>1
  <2>3. {W[n] : n \in 1..k + 1} = {W[n] : n \in 1..k} \cup {W[k + 1]}
    BY <2>2
  <2>4. QED
    BY <1>3, <1>4, <1>7, <2>3
<1>10. r.action \in {"remove", "transfer"} /\ r.user = r.actor => k <= 1
  <2>1. SUFFICES ASSUME r.action \in {"remove", "transfer"}, r.user = r.actor, k = 2 PROVE FALSE
    BY <1>3, <1>4
  <2>2. row = MemberRow(r.actor)
    BY <1>2, <1>4, <2>1
  <2>3. QED
    BY <1>1, <2>1, <2>2, PassesMeans
<1>11. HoldsPrefix(c)'
  BY <1>2, <1>4, <1>7, <1>8, <1>9, <1>10 DEF HoldsPrefix
<1>12. r.action \in {"remove", "transfer"} /\ row = MemberRow(r.user) => r.user # r.actor
  BY <1>1, PassesMeans
<1>13. QED
  BY <1>5, <1>11, <1>12

(* What is true under all the locks of a request, when it was not carried  *)
(* out before.                                                             *)
Reads(c) ==
  LET r == asks[c] IN
  /\ r.action = "create" => owner = NoOne
  /\ r.action # "create" =>
       /\ GroupRow \in held[c] /\ (owner = NoOne <=> r.action = "found")
       /\ seen[c].actor = member[r.actor] /\ seen[c].target = member[r.user]
  /\ r.action \in {"leave", "post", "announce", "remove", "transfer", "edit", "comment"}
       => MemberRow(r.actor) \in held[c] /\ member[r.actor].status = "active"
  /\ r.action \in {"remove", "transfer"}
       => /\ MemberRow(r.user) \in held[c] /\ member[r.user].status = "active"
          /\ r.user # r.actor
  /\ r.action \in {"edit", "comment", "like", "unlike"}
       => /\ PostRow(r.post) \in held[c]
          /\ r.post \in DOMAIN posts /\ seen[c].post = posts[r.post]

LEMMA UnderItsLocks ==
  ASSUME CInv, NEW c \in Calls, AllLocked(c), Saved(c) = {}
  PROVE  Reads(c)
<1> DEFINE r == asks[c]
           W == Wants(r)
<1>1. r \in Request
  BY CallTypes DEF CInv
<1>2. \A n \in 1..Len(W) : W[n] \in held[c]
  BY DEF AllLocked, CInv, PrefixesHeld, HoldsPrefix
<1>3. r.action = "create" => owner = NoOne
  BY DEF CInv, CreatedByRequest
<1>4. r.action # "create" => GroupRow \in held[c]
  BY <1>1, <1>2, WantsRows
<1>5. r.action \in {"leave", "post", "announce", "remove", "transfer", "edit", "comment"}
        => MemberRow(r.actor) \in held[c]
  BY <1>1, <1>2, WantsRows
<1>6. r.action \in {"remove", "transfer"} => MemberRow(r.user) \in held[c] /\ r.user # r.actor
  <2>1. r.action \in {"remove", "transfer"} => MemberRow(r.user) \in held[c] /\ Len(W) = 4
    <3>1. r.action \in {"remove", "transfer"} =>
            W = <<UserRow(r.actor), GroupRow, MemberRow(r.actor), MemberRow(r.user)>>
      BY DEF Wants
    <3>2. QED
      BY <1>1, <1>2, <3>1, WantsRows
  <2>2. Locked(c) = Len(W)
    BY DEF AllLocked
  <2>3. r.action \in {"remove", "transfer"} /\ r.user = r.actor => Locked(c) <= 2
    BY DEF CInv, PrefixesHeld, HoldsPrefix
  <2>4. r.action \in {"remove", "transfer"} => Locked(c) = 4
    BY <2>1, <2>2
  <2>5. r.action \in {"remove", "transfer"} => r.user # r.actor
    BY <2>3, <2>4
  <2>6. QED
    BY <2>1, <2>5
<1>7. r.action \in {"edit", "comment", "like", "unlike"} => PostRow(r.post) \in held[c]
  BY <1>1, <1>2, WantsRows
<1>8. GroupIsAsRead(c) /\ MembersAreActive(c) /\ PostIsAsRead(c)
  BY DEF CInv, RowsAreAsRead
<1>9. QED
  BY <1>3, <1>4, <1>5, <1>6, <1>7, <1>8
     DEF Reads, GroupIsAsRead, MembersAreActive, PostIsAsRead

-----------------------------------------------------------------------------
(* The tables, and what belongs to the calls.                              *)
TablesTypeOK ==
  /\ owner \in Users \cup {NoOne}
  /\ member \in [Users -> Member] /\ seats \subseteq Users
  /\ posts \in Seq(Post)
  /\ comments \in Seq(Comment) /\ likes \subseteq (DOMAIN posts) \X Users
  /\ events \in Seq(Event) /\ requests \in Seq(Saving)

CallsTypeOK ==
  /\ asks \in [Calls -> Request] /\ told \in [Calls -> Result]
  /\ pc \in [Calls -> {"new", "working", "done"}]
  /\ seen \in [Calls -> [actor : Member, target : Member, post : Post]]
  /\ held \in [Calls -> SUBSET Rows]
  /\ \A c, d \in Calls : c # d => held[c] \cap held[d] = {}

LEMMA TypeParts ==
  /\ TypeOK <=> TablesTypeOK /\ CallsTypeOK
  /\ TypeOK' <=> TablesTypeOK' /\ CallsTypeOK'
BY DEF TypeOK, TablesTypeOK, CallsTypeOK

LEMMA ConstantTypes ==
  /\ NoMember \in Member /\ NoPost \in Post /\ NotTold \in Result /\ Failed \in Result
  /\ NoRows \in [actor : Member, target : Member, post : Post]
  /\ NoOne \notin Users
BY CommunityAssumption
   DEF NoMember, Member, NoPost, Post, NotTold, Failed, Result, NoRows, Moderated, Managers

LEMMA InitCInv == Init => CInv
<1> SUFFICES ASSUME Init PROVE CInv
  OBVIOUS
<1>1. PICK s \in Scenarios :
        /\ owner = s.owner /\ member = s.member /\ posts = s.posts /\ asks = s.asks
        /\ seats = {u \in Users : s.member[u].status = "active"}
  BY DEF Init
<1>2. /\ s.asks \in [Calls -> Request] /\ s.owner \in Users \cup {NoOne}
      /\ s.member \in [Users -> Member] /\ s.posts \in Seq(Post)
  BY CommunityAssumption
<1>3. TypeOK
  <2>1. TablesTypeOK
    BY <1>1, <1>2 DEF Init, TablesTypeOK
  <2>2. CallsTypeOK
    BY <1>1, <1>2, ConstantTypes DEF Init, CallsTypeOK
  <2>3. QED
    BY <2>1, <2>2, TypeParts
<1>4. PrefixesHeld
  <2> SUFFICES ASSUME NEW c \in Calls PROVE HoldsPrefix(c)
    BY DEF PrefixesHeld
  <2>1. held[c] = {} /\ pc[c] = "new"
    BY DEF Init
  <2>2. IsFiniteSet(held[c]) /\ Locked(c) = 0
    BY <2>1, FS_EmptySet DEF Locked
  <2>3. Len(Wants(asks[c])) \in 1..4
    BY <1>1, <1>2, WantsRows
  <2>4. QED
    BY <2>1, <2>2, <2>3 DEF HoldsPrefix
<1>5. RowsAreAsRead
  BY DEF Init, RowsAreAsRead, GroupIsAsRead, MembersAreActive, PostIsAsRead
<1>6. RosterAgrees /\ NoGroupNoMembers
  BY <1>1, CommunityAssumption DEF RosterAgrees, NoGroupNoMembers
<1>7. CreationsAgree /\ CreatedByRequest
  BY <1>1, CommunityAssumption DEF CreationsAgree, CreatedByRequest
<1>8. AnsweredAtTheEnd
  BY DEF Init, AnsweredAtTheEnd
<1>9. QED
  BY <1>3, <1>4, <1>5, <1>6, <1>7, <1>8 DEF CInv

(* A call that is answered holds nothing any more; the others hold what    *)
(* they held.                                                              *)
LEMMA AnswerEnds ==
  ASSUME TypeOK, PrefixesHeld, AnsweredAtTheEnd, NEW c \in Calls, NEW reply \in Result,
         Answer(c, reply), UNCHANGED asks
  PROVE  /\ CallsTypeOK' /\ PrefixesHeld' /\ AnsweredAtTheEnd'
         /\ held'[c] = {}
         /\ \A d \in Calls \ {c} : held'[d] = held[d] /\ seen'[d] = seen[d]
<1>1. CallsTypeOK
  BY TypeParts
<1>2. /\ pc' = [pc EXCEPT ![c] = "done"] /\ told' = [told EXCEPT ![c] = reply]
      /\ held' = [held EXCEPT ![c] = {}] /\ seen' = [seen EXCEPT ![c] = NoRows]
  BY DEF Answer
<1>3. CallsTypeOK'
  BY <1>1, <1>2, ConstantTypes DEF CallsTypeOK
<1>4. /\ held'[c] = {}
      /\ \A d \in Calls \ {c} : held'[d] = held[d] /\ seen'[d] = seen[d]
  BY <1>1, <1>2 DEF CallsTypeOK
<1>5. PrefixesHeld'
  <2> SUFFICES ASSUME NEW d \in Calls PROVE HoldsPrefix(d)'
    BY DEF PrefixesHeld
  <2>1. CASE d = c
    <3>1. IsFiniteSet(held'[d]) /\ Locked(d)' = 0
      BY <1>4, <2>1, FS_EmptySet DEF Locked
    <3>2. Len(Wants(asks'[d])) \in 1..4
      BY <1>1, WantsRows DEF CallsTypeOK
    <3>3. QED
      BY <1>4, <2>1, <3>1, <3>2 DEF HoldsPrefix
  <2>2. CASE d # c
    BY <1>1, <1>2, <1>4, <2>2 DEF PrefixesHeld, HoldsPrefix, Locked, CallsTypeOK
  <2>3. QED
    BY <2>1, <2>2
<1>6. AnsweredAtTheEnd'
  BY <1>1, <1>2 DEF AnsweredAtTheEnd, CallsTypeOK
<1>7. QED
  BY <1>3, <1>4, <1>5, <1>6

(* A step that writes no table keeps what is said of the tables.           *)
LEMMA TablesKept ==
  ASSUME CInv, UNCHANGED <<roster, content, events, requests, asks>>
  PROVE  /\ TablesTypeOK' /\ RosterAgrees' /\ NoGroupNoMembers' /\ CreationsAgree'
         /\ CreatedByRequest'
<1>1. /\ UNCHANGED <<owner, member, seats, posts, comments, likes, events, requests, asks>>
      /\ TablesTypeOK
  BY TypeParts DEF CInv, roster, content
<1>2. TablesTypeOK'
  BY <1>1 DEF TablesTypeOK
<1>3. RosterAgrees' /\ NoGroupNoMembers' /\ CreationsAgree'
  BY <1>1 DEF CInv, RosterAgrees, NoGroupNoMembers, CreationsAgree
<1>4. CreatedByRequest'
  BY <1>1 DEF CInv, CreatedByRequest, Saved, KeyOf, HasNoId
<1>5. QED
  BY <1>2, <1>3, <1>4

LEMMA QuietAnswer ==
  ASSUME CInv, NEW c \in Calls, NEW reply \in Result, Answer(c, reply),
         UNCHANGED <<roster, content, events, requests, asks>>
  PROVE  CInv'
<1>1. /\ CallsTypeOK' /\ PrefixesHeld' /\ AnsweredAtTheEnd'
      /\ held'[c] = {} /\ \A d \in Calls \ {c} : held'[d] = held[d] /\ seen'[d] = seen[d]
  BY AnswerEnds DEF CInv
<1>2. RowsAreAsRead'
  <2>1. UNCHANGED <<owner, member, posts, asks>> /\ RowsAreAsRead
    BY DEF CInv, roster, content
  <2>2. QED
    BY <1>1, <2>1
       DEF RowsAreAsRead, GroupIsAsRead, MembersAreActive, PostIsAsRead, GroupRow, MemberRow, PostRow
<1>3. QED
  BY <1>1, <1>2, TablesKept, TypeParts DEF CInv

LEMMA BeginKeeps ==
  ASSUME CInv, NEW c \in Calls, Begin(c)
  PROVE  CInv'
<1>1. /\ UNCHANGED <<owner, member, seats, posts, comments, likes, events, requests,
                     asks, held, seen, told>>
      /\ pc[c] = "new" /\ pc' = [pc EXCEPT ![c] = "working"]
      /\ CallsTypeOK
  BY TypeParts DEF CInv, Begin, roster, content
<1>2. CallsTypeOK' /\ AnsweredAtTheEnd'
  BY <1>1 DEF CInv, CallsTypeOK, AnsweredAtTheEnd
<1>3. PrefixesHeld'
  BY <1>1 DEF CInv, CallsTypeOK, PrefixesHeld, HoldsPrefix, Locked
<1>4. RowsAreAsRead'
  BY <1>1 DEF CInv, RowsAreAsRead, GroupIsAsRead, MembersAreActive, PostIsAsRead
<1>5. QED
  BY <1>2, <1>3, <1>4, TablesKept, TypeParts DEF CInv, Begin

(* What a FOR UPDATE looks at stays true while the row is locked.          *)
LEMMA LockKeeps ==
  ASSUME CInv, NEW c \in Calls, Lock(c)
  PROVE  CInv'
<1> DEFINE r == asks[c]
           row == NextRow(c)
<1>1. TypeOK /\ CallsTypeOK /\ TablesTypeOK /\ HoldsPrefix(c) /\ r \in Request
  BY TypeParts, CallTypes DEF CInv, PrefixesHeld
<1>2. UNCHANGED <<roster, content, events, requests, asks>>
  BY DEF Lock
<1>3. CASE ~Passes(r, row)
  BY <1>2, <1>3, QuietAnswer, ConstantTypes DEF Lock
<1>4. CASE Passes(r, row)
  <2>1. /\ held' = [held EXCEPT ![c] = @ \cup {row}]
        /\ seen' = [seen EXCEPT ![c] =
             [actor |-> member[r.actor], target |-> member[r.user],
              post |-> IF r.post \in DOMAIN posts THEN posts[r.post] ELSE NoPost]]
        /\ UNCHANGED <<owner, member, posts, pc, told, asks>>
        /\ pc[c] = "working" /\ ~AllLocked(c) /\ Blockers(c) = {}
    BY <1>2, <1>4 DEF Lock, roster, content
  <2>2. /\ HoldsPrefix(c)' /\ row \in RowsOf(r)
        /\ r.action = "found" => row = GroupRow
        /\ r.action \in {"remove", "transfer"} /\ row = MemberRow(r.user) => r.user # r.actor
    BY <1>1, <1>4, <2>1, LockGrows
  <2>3. r.actor \in Users /\ r.user \in Users /\ r.post \in Nat
    BY <1>1 DEF Request
  <2>4. row \in Rows
    BY <2>2, <2>3, RowsDiffer DEF RowsOf
  <2>5. \A d \in Calls \ {c} : row \notin held[d] /\ held'[d] = held[d] /\ seen'[d] = seen[d]
    BY <1>1, <2>1 DEF Blockers, CallsTypeOK
  <2>6. /\ held'[c] = held[c] \cup {row}
        /\ seen'[c].actor = member[r.actor] /\ seen'[c].target = member[r.user]
        /\ r.post \in DOMAIN posts => seen'[c].post = posts[r.post]
    BY <1>1, <2>1 DEF CallsTypeOK
  <2>7. CallsTypeOK'
    <3>1. held' \in [Calls -> SUBSET Rows]
      BY <1>1, <2>1, <2>4 DEF CallsTypeOK
    <3>2. \A d, e \in Calls : d # e => held'[d] \cap held'[e] = {}
      BY <1>1, <2>5, <2>6 DEF CallsTypeOK
    <3>3. seen' \in [Calls -> [actor : Member, target : Member, post : Post]]
      <4>1. member[r.actor] \in Member /\ member[r.user] \in Member
        BY <1>1, <2>3 DEF TablesTypeOK
      <4>2. r.post \in DOMAIN posts => posts[r.post] \in Post
        BY <1>1, <2>3 DEF TablesTypeOK
      <4>3. NoPost \in Post
        BY ConstantTypes
      <4>4. QED
        BY <1>1, <2>1, <4>1, <4>2, <4>3 DEF CallsTypeOK
    <3>4. QED
      BY <1>1, <2>1, <3>1, <3>2, <3>3 DEF CallsTypeOK
  <2>8. PrefixesHeld'
    <3> SUFFICES ASSUME NEW d \in Calls \ {c} PROVE HoldsPrefix(d)'
      BY <2>2 DEF PrefixesHeld
    <3>1. QED
      BY <2>1, <2>5 DEF CInv, PrefixesHeld, HoldsPrefix, Locked
  <2>9. RowsAreAsRead'
    <3>1. ASSUME NEW d \in Calls \ {c}
          PROVE  GroupIsAsRead(d)' /\ MembersAreActive(d)' /\ PostIsAsRead(d)'
      BY <2>1, <2>5 DEF CInv, RowsAreAsRead, GroupIsAsRead, MembersAreActive, PostIsAsRead
    <3>2. GroupIsAsRead(c) /\ MembersAreActive(c) /\ PostIsAsRead(c)
      BY DEF CInv, RowsAreAsRead
    <3>3. /\ r.action = "found" => owner = NoOne
          /\ row = GroupRow /\ r.action # "found" => owner # NoOne
          /\ row = PostRow(r.post) => r.post \in DOMAIN posts
          /\ row = MemberRow(r.actor) => member[r.actor].status = "active"
          /\ row = MemberRow(r.user) => member[r.user].status = "active"
      BY <1>1, <1>4, <2>2, <2>3, PassesMeans, RowsDiffer
    <3>4. GroupIsAsRead(c)'
      BY <2>1, <2>6, <3>2, <3>3 DEF GroupIsAsRead
    <3>5. MembersAreActive(c)'
      BY <2>1, <2>6, <3>2, <3>3 DEF MembersAreActive
    <3>6. PostIsAsRead(c)'
      BY <2>1, <2>6, <3>2, <3>3 DEF PostIsAsRead
    <3>7. QED
      BY <3>1, <3>4, <3>5, <3>6 DEF RowsAreAsRead
  <2>10. AnsweredAtTheEnd'
    BY <2>1 DEF CInv, AnsweredAtTheEnd
  <2>11. QED
    BY <1>2, <2>7, <2>8, <2>9, <2>10, TablesKept, TypeParts DEF CInv
<1>5. QED
  BY <1>3, <1>4

-----------------------------------------------------------------------------
Operation(c) ==
  \/ Create(c) \/ Found(c) \/ Join(c) \/ Leave(c) \/ Transfer(c)
  \/ CreatePost(c) \/ EditPost(c) \/ AddComment(c) \/ Like(c)

(* An operation is done under all its locks, and is the last step of its   *)
(* transaction.  It records its request if that has an id.                 *)
Records(c, reply) ==
  \/ /\ HasNoId(asks[c]) /\ UNCHANGED requests
  \/ \E result \in Result :
       /\ ~HasNoId(asks[c]) /\ reply \in {result, Failed}
       /\ requests' = Append(requests, [request |-> asks[c], result |-> result])

LEMMA FinishRecords ==
  ASSUME TypeOK, NEW c \in Calls, NEW post \in Nat, NEW version \in Nat, Finish(c, post, version),
         ~HasNoId(asks[c])
  PROVE  /\ \E reply \in Result : Answer(c, reply) /\ Records(c, reply)
         /\ UNCHANGED asks
<1> DEFINE result == [of |-> asks[c].action, post |-> post, version |-> version]
<1>1. result \in Result
  BY CallTypes DEF Result
<1>2. UNCHANGED asks /\ requests' = Append(requests, [request |-> asks[c], result |-> result])
  BY DEF Finish
<1>3. PICK reply \in {result, Failed} : Answer(c, reply)
  BY DEF Finish
<1>4. reply \in Result
  BY <1>1, <1>3, ConstantTypes
<1> HIDE DEF result
<1>5. QED
  BY <1>1, <1>2, <1>3, <1>4 DEF Records

LEMMA OperationEnds ==
  ASSUME TypeOK, NEW c \in Calls, Operation(c)
  PROVE  /\ AllLocked(c) /\ Saved(c) = {} /\ May(c) /\ UNCHANGED asks
         /\ \E reply \in Result : Answer(c, reply) /\ Records(c, reply)
<1>1. asks[c].post \in Nat /\ asks[c].expected \in Nat
  BY DEF TypeOK, Request
<1>2. ASSUME Permitted(c, {"create"}) \/ Permitted(c, {"join"}) \/ Permitted(c, {"leave", "remove"})
             \/ Permitted(c, {"transfer"}) \/ Permitted(c, {"post", "announce"})
             \/ Permitted(c, {"edit"}) \/ Permitted(c, {"comment"})
      PROVE  ~HasNoId(asks[c]) /\ AllLocked(c) /\ Saved(c) = {} /\ May(c)
  BY <1>2 DEF Permitted, HasNoId
<1>3. CASE Create(c) \/ Join(c) \/ Leave(c) \/ Transfer(c)
  BY <1>2, <1>3, FinishRecords DEF Create, Join, Leave, Transfer
<1>4. CASE CreatePost(c)
  <2>1. Len(posts) + 1 \in Nat
    BY DEF TypeOK
  <2>2. QED
    BY <1>2, <1>4, <2>1, FinishRecords DEF CreatePost
<1>5. CASE EditPost(c)
  <2>1. asks[c].expected + 1 \in Nat
    BY <1>1
  <2>2. QED
    BY <1>1, <1>2, <1>5, <2>1, FinishRecords DEF EditPost
<1>6. CASE AddComment(c)
  BY <1>1, <1>2, <1>6, FinishRecords DEF AddComment
<1>7. CASE Found(c)
  <2>1. [of |-> "found", post |-> 0, version |-> 0] \in Result
    BY DEF Result, Actions
  <2>2. QED
    BY <1>7, <2>1, ConstantTypes DEF Found, Permitted, Records, HasNoId
<1>8. CASE Like(c)
  <2>1. [of |-> asks[c].action, post |-> asks[c].post, version |-> 0] \in Result
    BY <1>1, CallTypes DEF Result
  <2>2. QED
    BY <1>8, <2>1, ConstantTypes DEF Like, Permitted, Records, HasNoId
<1>9. QED
  BY <1>3, <1>4, <1>5, <1>6, <1>7, <1>8 DEF Operation

(* How an operation may write the roster: under the lock of the group, or  *)
(* as its creation, and it ends a membership only under its lock.          *)
RosterKept(c) ==
  /\ owner' \in Users \cup {NoOne} /\ member' \in [Users -> Member] /\ seats' \subseteq Users
  /\ RosterAgrees' /\ NoGroupNoMembers'
  /\ \A u \in Users : member[u].status = "removed" => member'[u].status = "removed"
  /\ \A u \in Users : member[u].status = "active" /\ member'[u].status # "active"
       => MemberRow(u) \in held[c]
  /\ <<owner, member>>' # <<owner, member>>
       => GroupRow \in held[c] \/ asks[c].action = "create"
  /\ IF owner = NoOne THEN owner' # NoOne => asks[c].action \in {"create", "found"}
                      ELSE owner' # NoOne

LEMMA OperationKeepsRoster ==
  ASSUME CInv, NEW c \in Calls, Operation(c)
  PROVE  RosterKept(c)
<1> DEFINE r == asks[c]
           actor == asks[c].actor
           user == asks[c].user
<1>1. /\ owner \in Users \cup {NoOne} /\ member \in [Users -> Member] /\ seats \subseteq Users
      /\ actor \in Users /\ user \in Users /\ NoOne \notin Users
  BY CallTypes, ConstantTypes DEF CInv, TypeOK
<1>2. /\ owner # NoOne => \A u \in Users : member[u].role = "owner" <=> u = owner
      /\ owner # NoOne => owner \in Users /\ member[owner].status = "active"
      /\ \A u \in Users : u \in seats <=> member[u].status = "active"
      /\ owner = NoOne => \A u \in Users : member[u] = NoMember
  BY <1>1 DEF CInv, RosterAgrees, NoGroupNoMembers
<1>3. Reads(c) /\ May(c)
  BY OperationEnds, UnderItsLocks DEF CInv
<1>4. ASSUME owner' \in Users, member' \in [Users -> Member], seats' \subseteq Users,
             \A u \in Users : member'[u].role = "owner" <=> u = owner',
             member'[owner'].status = "active",
             \A u \in Users : u \in seats' <=> member'[u].status = "active"
      PROVE  RosterAgrees' /\ NoGroupNoMembers'
  BY <1>1, <1>4 DEF RosterAgrees, NoGroupNoMembers
<1>5. CASE Create(c)
  <2>1. /\ owner = NoOne /\ owner' = actor /\ seats' = {actor}
        /\ member' = [member EXCEPT ![actor] = [role |-> "owner", status |-> "active"]]
        /\ r.action = "create"
    BY <1>3, <1>5 DEF Create, Permitted, Reads
  <2>2. [role |-> "owner", status |-> "active"] \in Member
    BY DEF Member, Managers
  <2>3. \A u \in Users : member[u].role = "none" /\ member[u].status = "none"
    BY <1>2, <2>1 DEF NoMember
  <2>4. /\ member' \in [Users -> Member]
        /\ member'[actor].role = "owner" /\ member'[actor].status = "active"
        /\ \A u \in Users \ {actor} : member'[u].role = "none" /\ member'[u].status = "none"
    BY <1>1, <2>1, <2>2, <2>3
  <2>5. QED
    BY <1>1, <1>4, <2>1, <2>3, <2>4 DEF RosterKept
<1>6. CASE Found(c)
  <2>1. /\ owner = NoOne /\ owner' = actor /\ seats' = seats \cup {actor, user}
        /\ member' = [u \in Users |->
             IF u = actor THEN [role |-> "owner", status |-> "active"]
             ELSE IF u = user
               THEN [role |-> IF member[u].status = "none" THEN "member" ELSE member[u].role,
                     status |-> "active"]
             ELSE member[u]]
        /\ r.action = "found" /\ GroupRow \in held[c]
    BY <1>3, <1>6 DEF Found, Permitted, Reads
  <2>2. \A u \in Users : member[u].role = "none" /\ member[u].status = "none" /\ u \notin seats
    BY <1>2, <2>1 DEF NoMember
  <2>3. /\ member'[actor].role = "owner" /\ member'[actor].status = "active"
        /\ \A u \in Users \ {actor} :
             /\ u = user => member'[u].role = "member" /\ member'[u].status = "active"
             /\ u # user => member'[u] = member[u]
    BY <1>1, <2>1, <2>2
  <2>4. member' \in [Users -> Member]
    <3>1. [role |-> "owner", status |-> "active"] \in Member
          /\ [role |-> "member", status |-> "active"] \in Member
      BY DEF Member, Managers
    <3>2. QED
      BY <1>1, <2>1, <2>2, <3>1
  <2>5. QED
    BY <1>1, <1>4, <2>1, <2>2, <2>3, <2>4 DEF RosterKept
<1>7. CASE Join(c)
  <2>1. /\ owner # NoOne /\ UNCHANGED owner /\ seats' = seats \cup {actor}
        /\ member' = [member EXCEPT ![actor] =
             [role |-> IF @.status = "none" THEN "member" ELSE @.role, status |-> "active"]]
        /\ r.action = "join" /\ GroupRow \in held[c] /\ seen[c].actor = member[actor]
        /\ member[actor].status # "removed"
    BY <1>3, <1>7 DEF Join, Permitted, Reads, May
  <2>2. PICK role \in Managers \cup {"member", "none"} :
          /\ role = IF member[actor].status = "none" THEN "member" ELSE member[actor].role
          /\ role = "owner" <=> actor = owner
    BY <1>1, <1>2, <2>1 DEF Member
  <2>3. /\ member' = [member EXCEPT ![actor] = [role |-> role, status |-> "active"]]
        /\ [role |-> role, status |-> "active"] \in Member
    BY <2>1, <2>2 DEF Member
  <2>4. /\ member' \in [Users -> Member]
        /\ member'[actor].role = role /\ member'[actor].status = "active"
        /\ \A u \in Users \ {actor} : member'[u] = member[u]
    BY <1>1, <2>3
  <2>5. QED
    BY <1>1, <1>2, <1>4, <2>1, <2>2, <2>4 DEF RosterKept
<1>8. CASE Leave(c)
  <2>1. PICK target \in Users : target = IF r.action = "leave" THEN actor ELSE user
    BY <1>1
  <2>2. /\ owner # NoOne /\ UNCHANGED owner /\ seats' = seats \ {target}
        /\ member' = [member EXCEPT ![target] =
             [@ EXCEPT !.status = IF r.action = "leave" THEN "left" ELSE "removed"]]
        /\ GroupRow \in held[c] /\ MemberRow(target) \in held[c]
        /\ member[target].status = "active" /\ member[target].role # "owner"
    BY <1>3, <1>8, <2>1 DEF Leave, Permitted, Reads, May, MayRemove
  <2>3. PICK ended \in {"left", "removed"} :
          member' = [member EXCEPT ![target] = [@ EXCEPT !.status = ended]]
    BY <2>2
  <2>4. /\ member'[target].role = member[target].role /\ member'[target].status = ended
        /\ member'[target] \in Member
    BY <1>1, <2>1, <2>3 DEF Member
  <2>5. \A u \in Users \ {target} : member'[u] = member[u]
    BY <1>1, <2>3
  <2>6. member' \in [Users -> Member]
    BY <1>1, <2>3, <2>4, <2>5
  <2>7. QED
    BY <1>1, <1>2, <1>4, <2>2, <2>4, <2>5, <2>6 DEF RosterKept
<1>9. CASE Transfer(c)
  <2>1. /\ owner # NoOne /\ owner' = user /\ UNCHANGED seats
        /\ member' = [member EXCEPT ![actor] = [@ EXCEPT !.role = "member"],
                                    ![user] = [@ EXCEPT !.role = "owner"]]
        /\ GroupRow \in held[c] /\ user # actor
        /\ member[actor].role = "owner" /\ member[user].status = "active"
    BY <1>3, <1>9 DEF Transfer, Permitted, Reads, May
  <2>2. /\ member'[actor] = [member[actor] EXCEPT !.role = "member"]
        /\ member'[user] = [member[user] EXCEPT !.role = "owner"]
        /\ \A u \in Users \ {actor, user} : member'[u] = member[u]
        /\ DOMAIN member' = Users /\ member' = [u \in Users |-> member'[u]]
    BY <1>1, <2>1
  <2>3. member[actor] \in Member /\ member[user] \in Member
    BY <1>1
  <2>4. /\ member'[actor].role = "member" /\ member'[actor].status = member[actor].status
        /\ member'[user].role = "owner" /\ member'[user].status = member[user].status
        /\ member'[actor] \in Member /\ member'[user] \in Member
    BY <2>2, <2>3 DEF Member, Managers
  <2>5. member' \in [Users -> Member]
    BY <1>1, <2>2, <2>4
  <2>6. member[actor].status = "active" /\ owner = actor
    BY <1>1, <1>2, <2>1
  <2>7. \A u \in Users : member'[u].status = member[u].status
    BY <1>1, <2>2, <2>4
  <2>8. RosterAgrees' /\ NoGroupNoMembers'
    <3>1. \A u \in Users : member'[u].role = "owner" <=> u = owner'
      <4>1. \A u \in Users \ {actor, user} : member'[u].role # "owner"
        BY <1>2, <2>1, <2>2, <2>6
      <4>2. QED
        BY <1>1, <2>1, <2>4, <4>1
    <3>2. \A u \in Users : u \in seats' <=> member'[u].status = "active"
      BY <1>2, <2>1, <2>7
    <3>3. owner' \in Users /\ member'[owner'].status = "active" /\ seats' \subseteq Users
      BY <1>1, <2>1, <2>7
    <3>4. QED
      BY <1>4, <2>5, <3>1, <3>2, <3>3
  <2>9. owner' \in Users /\ seats' \subseteq Users /\ owner' # NoOne
    BY <1>1, <2>1
  <2>10. QED
    BY <2>1, <2>5, <2>7, <2>8, <2>9 DEF RosterKept
<1>10. CASE CreatePost(c) \/ EditPost(c) \/ AddComment(c) \/ Like(c)
  <2>1. UNCHANGED <<owner, member, seats>>
    BY <1>10 DEF CreatePost, EditPost, AddComment, Like, roster
  <2>2. RosterAgrees' /\ NoGroupNoMembers'
    BY <2>1 DEF CInv, RosterAgrees, NoGroupNoMembers
  <2>3. QED
    BY <1>1, <2>1, <2>2 DEF RosterKept
<1>11. QED
  BY <1>5, <1>6, <1>7, <1>8, <1>9, <1>10 DEF Operation

(* What an operation may do to a post that is there.                       *)
Authorised(c, p) ==
  LET r == asks[c]  actor == member[r.actor] IN
  /\ r.action = "edit" /\ PostRow(p) \in held[c]
  /\ r.expected = posts[p].version
  /\ posts'[p].version = posts[p].version + 1 /\ posts[p].status # "deleted"
  /\ actor.status = "active" /\ (actor.role \in Managers \/ r.actor = posts[p].author)
  /\ posts'[p].status \notin {posts[p].status, "deleted"} => actor.role \in Managers

PostsKept(c) ==
  /\ posts' \in Seq(Post)
  /\ \A p \in DOMAIN posts : p \in DOMAIN posts' /\ (posts'[p] # posts[p] => Authorised(c, p))

LEMMA OperationKeepsPosts ==
  ASSUME CInv, NEW c \in Calls, Operation(c)
  PROVE  PostsKept(c)
<1> DEFINE r == asks[c]
<1>1. posts \in Seq(Post) /\ r \in Request /\ DOMAIN posts = 1..Len(posts) /\ Len(posts) \in Nat
  BY CallTypes DEF CInv, TypeOK
<1>2. CASE CreatePost(c)
  <2>1. PICK post : /\ post = [author |-> r.actor, status |-> "published", version |-> 1]
                    /\ posts' = Append(posts, post)
    BY <1>2 DEF CreatePost
  <2>2. post \in Post
    BY <1>1, <2>1 DEF Post, Moderated, Request
  <2>3. /\ posts' \in Seq(Post) /\ Len(posts') = Len(posts) + 1
        /\ \A p \in 1..Len(posts) : posts'[p] = posts[p]
    BY <1>1, <2>1, <2>2
  <2>4. DOMAIN posts' = 1..Len(posts) + 1
    BY <2>3
  <2>5. QED
    BY <1>1, <2>3, <2>4 DEF PostsKept
<1>3. CASE EditPost(c)
  <2>1. Reads(c) /\ May(c)
    BY OperationEnds, UnderItsLocks DEF CInv
  <2>2. PICK status : status = IF r.status = "" THEN seen[c].post.status ELSE r.status
    OBVIOUS
  <2>3. /\ r.action = "edit" /\ posts[r.post].version = r.expected
        /\ posts' = [posts EXCEPT ![r.post] =
             [@ EXCEPT !.version = r.expected + 1, !.status = status]]
    BY <1>3, <2>2 DEF EditPost, Permitted
  <2>4. /\ r.post \in DOMAIN posts /\ seen[c].post = posts[r.post] /\ PostRow(r.post) \in held[c]
        /\ seen[c].actor = member[r.actor] /\ member[r.actor].status = "active"
        /\ MayEdit(c)
    BY <2>1, <2>3 DEF Reads, May
  <2>5. /\ posts[r.post] \in Post /\ r.expected + 1 \in Nat
        /\ r.status \in Moderated \cup {"", "deleted"}
    <3>1. posts[r.post] \in Post
      BY <1>1, <2>4
    <3>2. r.expected \in Nat
      BY <1>1 DEF Request
    <3>3. r.expected + 1 \in Nat
      BY <3>2
    <3>4. r.status \in Moderated \cup {"", "deleted"}
      BY <1>1 DEF Request
    <3>5. QED
      BY <3>1, <3>3, <3>4
  <2>6. status \in Moderated \cup {"deleted"}
    BY <2>2, <2>4, <2>5 DEF Post
  <2>7. PICK post : post = [posts[r.post] EXCEPT !.version = r.expected + 1, !.status = status]
    OBVIOUS
  <2>8. post \in Post /\ post.version = r.expected + 1 /\ post.status = status
    BY <2>5, <2>6, <2>7 DEF Post
  <2>9. posts' = [posts EXCEPT ![r.post] = post]
    BY <2>3, <2>7
  <2>10. /\ posts' \in Seq(Post) /\ Len(posts') = Len(posts) /\ posts'[r.post] = post
         /\ \A p \in DOMAIN posts \ {r.post} : posts'[p] = posts[p]
    BY <1>1, <2>4, <2>8, <2>9
  <2>11. Authorised(c, r.post)
    <3>1. posts'[r.post].version = posts[r.post].version + 1 /\ posts'[r.post].status = status
      BY <2>3, <2>8, <2>10
    <3>2. /\ posts[r.post].status # "deleted"
          /\ member[r.actor].role \in Managers \/ r.actor = posts[r.post].author
          /\ r.status \in Moderated => member[r.actor].role \in Managers
      BY <2>4 DEF MayEdit, IsManager
    <3>3. status \notin {posts[r.post].status, "deleted"} => r.status \in Moderated
      BY <2>2, <2>4, <2>5
    <3>4. QED
      BY <2>3, <2>4, <3>1, <3>2, <3>3 DEF Authorised
  <2>12. DOMAIN posts' = DOMAIN posts
    BY <1>1, <2>10
  <2>13. QED
    BY <2>10, <2>11, <2>12 DEF PostsKept
<1>4. CASE UNCHANGED posts
  BY <1>1, <1>4 DEF PostsKept
<1>5. QED
  BY <1>2, <1>3, <1>4 DEF Operation, Create, Found, Join, Leave, Transfer, AddComment, Like, content

LEMMA EmitTypes ==
  ASSUME TypeOK, NEW c \in Calls, NEW kind \in {"post_created", "comment_created"},
         NEW post \in Nat, NEW recipient \in Users \cup {NoOne}, Emit(c, kind, post, recipient)
  PROVE  events' \in Seq(Event)
<1>1. PICK event : /\ event = [actor |-> asks[c].actor, kind |-> kind, post |-> post,
                               recipient |-> recipient]
                   /\ events' = Append(events, event)
  BY DEF Emit
<1>2. event \in Event
  BY <1>1, CallTypes DEF Event
<1>3. QED
  BY <1>1, <1>2 DEF TypeOK

LEMMA OperationTypes ==
  ASSUME CInv, NEW c \in Calls, Operation(c)
  PROVE  TablesTypeOK'
<1> DEFINE r == asks[c]
<1>1. /\ TypeOK /\ r \in Request /\ r.actor \in Users /\ r.post \in Nat /\ r.parent \in Nat
      /\ comments \in Seq(Comment) /\ likes \subseteq (DOMAIN posts) \X Users
      /\ events \in Seq(Event) /\ requests \in Seq(Saving)
  BY CallTypes DEF CInv, TypeOK, Request
<1>2. RosterKept(c) /\ PostsKept(c)
  BY OperationKeepsRoster, OperationKeepsPosts
<1>3. requests' \in Seq(Saving)
  <2>1. PICK reply \in Result : Records(c, reply)
    BY <1>1, OperationEnds
  <2>2. CASE UNCHANGED requests
    BY <1>1, <2>2
  <2>3. ASSUME NEW result \in Result,
               requests' = Append(requests, [request |-> r, result |-> result])
        PROVE  requests' \in Seq(Saving)
    <3>1. PICK saving : saving = [request |-> r, result |-> result]
      OBVIOUS
    <3>2. saving \in Saving
      BY <1>1, <3>1 DEF Saving
    <3>3. QED
      BY <1>1, <2>3, <3>1, <3>2
  <2>4. QED
    BY <2>1, <2>2, <2>3 DEF Records
<1>4. likes' \subseteq (DOMAIN posts') \X Users
  <2>1. DOMAIN posts \subseteq DOMAIN posts'
    BY <1>2 DEF PostsKept
  <2>2. CASE UNCHANGED likes
    BY <1>1, <2>1, <2>2
  <2>3. CASE Like(c)
    <3>1. r.post \in DOMAIN posts /\ UNCHANGED posts
      BY <1>1, <2>3, OperationEnds, UnderItsLocks DEF Like, Permitted, Reads
    <3>2. <<r.post, r.actor>> \in (DOMAIN posts) \X Users
      BY <1>1, <3>1
    <3>3. QED
      BY <1>1, <2>3, <3>1, <3>2 DEF Like
  <2>4. QED
    BY <2>2, <2>3 DEF Operation, Create, Found, Join, Leave, Transfer, CreatePost, EditPost,
                      AddComment, content
<1>5. comments' \in Seq(Comment) /\ events' \in Seq(Event)
  <2>1. CASE UNCHANGED <<comments, events>>
    BY <1>1, <2>1
  <2>2. CASE CreatePost(c)
    <3>1. UNCHANGED comments /\ Len(posts) + 1 \in Nat
      BY <1>1, <2>2 DEF CreatePost, TypeOK
    <3>2. Emit(c, "post_created", Len(posts) + 1, NoOne)
      BY <2>2 DEF CreatePost
    <3>3. QED
      BY <1>1, <3>1, <3>2, EmitTypes
  <2>3. CASE AddComment(c)
    <3>1. PICK comment : /\ comment = [post |-> r.post, author |-> r.actor, parent |-> r.parent]
                         /\ comments' = Append(comments, comment)
      BY <2>3 DEF AddComment
    <3>2. comment \in Comment
      BY <1>1, <3>1 DEF Comment
    <3>3. PICK recipient : recipient =
            IF r.parent = 0 THEN seen[c].post.author ELSE comments[r.parent].author
      OBVIOUS
    <3>4. recipient \in Users \cup {NoOne}
      <4>1. seen[c].post.author \in Users \cup {NoOne}
        BY <1>1, CallTypes DEF Post
      <4>2. r.parent # 0 => r.parent \in DOMAIN comments
        BY <1>1, <2>3, OperationEnds DEF AddComment, Permitted, May, MayComment
      <4>3. r.parent # 0 => comments[r.parent] \in Comment
        BY <1>1, <4>2
      <4>4. QED
        BY <3>3, <4>1, <4>3 DEF Comment
    <3>5. UNCHANGED events \/ Emit(c, "comment_created", r.post, recipient)
      BY <2>3, <3>3 DEF AddComment
    <3>6. QED
      BY <1>1, <3>1, <3>2, <3>4, <3>5, EmitTypes
  <2>4. QED
    BY <2>1, <2>2, <2>3 DEF Operation, Create, Found, Join, Leave, Transfer, EditPost, Like, content
<1>6. QED
  BY <1>2, <1>3, <1>4, <1>5 DEF TablesTypeOK, RosterKept, PostsKept

-----------------------------------------------------------------------------
LEMMA OperationKeepsReads ==
  ASSUME CInv, NEW c \in Calls, Operation(c)
  PROVE  RowsAreAsRead'
<1>1. RosterKept(c) /\ PostsKept(c)
  BY OperationKeepsRoster, OperationKeepsPosts
<1>2. UNCHANGED asks /\ CallsTypeOK /\ AllLocked(c) /\ Saved(c) = {}
  BY OperationEnds, TypeParts DEF CInv
<1>3. held'[c] = {} /\ \A d \in Calls \ {c} : held'[d] = held[d] /\ seen'[d] = seen[d]
  BY OperationEnds, AnswerEnds DEF CInv
<1>4. ASSUME NEW d \in Calls, d # c
      PROVE  GroupIsAsRead(d)' /\ MembersAreActive(d)' /\ PostIsAsRead(d)'
  <2>1. /\ held'[d] = held[d] /\ seen'[d] = seen[d] /\ asks'[d] = asks[d]
        /\ asks[d].actor \in Users /\ asks[d].user \in Users
        /\ held[c] \cap held[d] = {}
    BY <1>2, <1>3, <1>4, CallTypes DEF CInv, CallsTypeOK
  <2>2. GroupIsAsRead(d) /\ MembersAreActive(d) /\ PostIsAsRead(d)
    BY DEF CInv, RowsAreAsRead
  <2>3. GroupIsAsRead(d)'
    <3>1. CASE UNCHANGED <<owner, member>>
      BY <2>1, <2>2, <3>1 DEF GroupIsAsRead, GroupRow
    <3>2. CASE GroupRow \in held[c]
      BY <2>1, <3>2 DEF GroupIsAsRead, GroupRow
    <3>3. CASE asks[c].action = "create"
      <4>1. owner = NoOne
        BY <1>2, <3>3, UnderItsLocks DEF Reads
      <4>2. asks[d].action = "found" => asks[c] = asks[d]
        BY <3>3 DEF CInv, CreationsAgree
      <4>3. GroupRow \notin held[d]
        BY <2>2, <3>3, <4>1, <4>2 DEF GroupIsAsRead
      <4>4. QED
        BY <2>1, <4>3 DEF GroupIsAsRead, GroupRow
    <3>4. QED
      BY <1>1, <3>1, <3>2, <3>3 DEF RosterKept
  <2>4. MembersAreActive(d)'
    BY <1>1, <2>1, <2>2 DEF RosterKept, MembersAreActive, MemberRow
  <2>5. PostIsAsRead(d)'
    BY <1>1, <2>1, <2>2 DEF PostsKept, Authorised, PostIsAsRead, PostRow
  <2>6. QED
    BY <2>3, <2>4, <2>5
<1>5. GroupIsAsRead(c)' /\ MembersAreActive(c)' /\ PostIsAsRead(c)'
  BY <1>3 DEF GroupIsAsRead, MembersAreActive, PostIsAsRead
<1>6. QED
  BY <1>4, <1>5 DEF RowsAreAsRead

(* The community's creation is recorded with it, and stays recorded.       *)
LEMMA OperationKeepsCreation ==
  ASSUME CInv, NEW c \in Calls, Operation(c)
  PROVE  CreationsAgree' /\ CreatedByRequest'
<1>1. UNCHANGED asks /\ requests \in Seq(Saving)
  BY OperationEnds DEF CInv, TypeOK
<1>2. CreationsAgree'
  BY <1>1 DEF CInv, CreationsAgree
<1>3. PICK reply \in Result : Records(c, reply)
  BY OperationEnds DEF CInv
<1>4. /\ \A n \in DOMAIN requests : n \in DOMAIN requests' /\ requests'[n] = requests[n]
      /\ ~HasNoId(asks[c]) =>
           \E n \in DOMAIN requests' : requests'[n].request = asks[c]
  <2>1. CASE HasNoId(asks[c]) /\ UNCHANGED requests
    BY <2>1
  <2>2. ASSUME NEW saving, saving.request = asks[c], requests' = Append(requests, saving)
        PROVE  /\ \A n \in DOMAIN requests : n \in DOMAIN requests' /\ requests'[n] = requests[n]
               /\ \E n \in DOMAIN requests' : requests'[n].request = asks[c]
    <3>1. /\ Len(requests) \in Nat /\ DOMAIN requests = 1..Len(requests)
          /\ DOMAIN requests' = 1..Len(requests) + 1
          /\ \A n \in 1..Len(requests) : requests'[n] = requests[n]
          /\ requests'[Len(requests) + 1] = saving
      BY <1>1, <2>2
    <3>2. QED
      BY <2>2, <3>1
  <2>3. QED
    BY <1>3, <2>1, <2>2 DEF Records
<1>5. ASSUME NEW d \in Calls, asks[d].action = "create", owner' # NoOne
      PROVE  Saved(d)' # {}
  <2>1. ~HasNoId(asks[d])
    BY <1>5 DEF HasNoId
  <2>2. CASE owner # NoOne
    <3>1. PICK n \in DOMAIN requests : KeyOf(requests[n].request) = KeyOf(asks[d])
      BY <1>5, <2>2 DEF CInv, CreatedByRequest, Saved
    <3>2. QED
      BY <1>1, <1>4, <2>1, <3>1 DEF Saved, KeyOf, HasNoId
  <2>3. CASE owner = NoOne
    <3>1. asks[c].action \in {"create", "found"}
      BY <1>5, <2>3, OperationKeepsRoster DEF RosterKept
    <3>2. asks[c] = asks[d]
      BY <1>5, <3>1 DEF CInv, CreationsAgree
    <3>3. QED
      BY <1>1, <1>4, <2>1, <3>2 DEF Saved, KeyOf, HasNoId
  <2>4. QED
    BY <2>2, <2>3
<1>6. QED
  BY <1>1, <1>2, <1>5 DEF CreatedByRequest

LEMMA OperationKeeps ==
  ASSUME CInv, NEW c \in Calls, Operation(c)
  PROVE  CInv'
<1>1. CallsTypeOK' /\ PrefixesHeld' /\ AnsweredAtTheEnd'
  BY OperationEnds, AnswerEnds DEF CInv
<1>2. RosterAgrees' /\ NoGroupNoMembers'
  BY OperationKeepsRoster DEF RosterKept
<1>3. QED
  BY <1>1, <1>2, OperationTypes, OperationKeepsReads, OperationKeepsCreation, TypeParts DEF CInv

(* The steps that carry no operation out answer the call at most.          *)
EndsQuietly(c) == Repeat(c) \/ Refuse(c) \/ Abort(c) \/ Victim(c)

LEMMA QuietSteps ==
  ASSUME TypeOK, NEW c \in Calls, EndsQuietly(c)
  PROVE  /\ UNCHANGED <<roster, content, events, requests, asks>>
         /\ \E reply \in Result :
              /\ Answer(c, reply) /\ pc[c] = "working"
              /\ \/ reply = Failed
                 \/ \E n \in Saved(c) :
                      requests[n].request = asks[c] /\ reply = requests[n].result
<1>1. CASE Refuse(c) \/ Abort(c) \/ Victim(c)
  BY <1>1, ConstantTypes DEF Refuse, Abort, Victim, AllLocked, Blockers
<1>2. CASE Repeat(c)
  <2>1. PICK n \in Saved(c) :
          Answer(c, IF requests[n].request = asks[c] THEN requests[n].result ELSE Failed)
    BY <1>2 DEF Repeat
  <2>2. requests[n] \in Saving
    BY DEF Saved, TypeOK
  <2>3. requests[n].result \in Result
    BY <2>2 DEF Saving
  <2>4. QED
    BY <1>2, <2>1, <2>3, ConstantTypes DEF Repeat
<1>3. QED
  BY <1>1, <1>2 DEF EndsQuietly

LEMMA StepCInv == CInv /\ [Next]_vars => CInv'
<1> SUFFICES ASSUME CInv, [Next]_vars PROVE CInv'
  OBVIOUS
<1>1. ASSUME NEW c \in Calls, EndsQuietly(c) PROVE CInv'
  BY <1>1, QuietSteps, QuietAnswer DEF CInv
<1>2. CASE Next
  BY <1>1, <1>2, BeginKeeps, LockKeeps, OperationKeeps DEF Next, Progress, Operation, EndsQuietly
<1>3. CASE UNCHANGED vars
  <2>1. /\ UNCHANGED <<roster, content, events, requests, asks>>
        /\ UNCHANGED <<owner, member, posts, asks, pc, held, seen, told>>
    BY <1>3 DEF vars, roster, content, callVars
  <2>2. CallsTypeOK' /\ PrefixesHeld' /\ RowsAreAsRead' /\ AnsweredAtTheEnd'
    <3>1. CallsTypeOK /\ PrefixesHeld /\ RowsAreAsRead /\ AnsweredAtTheEnd
      BY TypeParts DEF CInv
    <3>2. CallsTypeOK' /\ AnsweredAtTheEnd'
      BY <2>1, <3>1 DEF CallsTypeOK, AnsweredAtTheEnd
    <3>3. PrefixesHeld'
      BY <2>1, <3>1 DEF PrefixesHeld, HoldsPrefix, Locked
    <3>4. RowsAreAsRead'
      BY <2>1, <3>1 DEF RowsAreAsRead, GroupIsAsRead, MembersAreActive, PostIsAsRead
    <3>5. QED
      BY <3>2, <3>3, <3>4
  <2>3. QED
    BY <2>1, <2>2, TablesKept, TypeParts DEF CInv
<1>4. QED
  BY <1>2, <1>3

LEMMA Invariant == Spec => []CInv
BY InitCInv, StepCInv, PTL DEF Spec

-----------------------------------------------------------------------------
(* The tables, the locks and what the calls hold have their types, and a   *)
(* row is locked by one transaction at most.                               *)
THEOREM TypeCorrect == Spec => []TypeOK
BY Invariant, PTL DEF CInv

(* The community has the one owner its row names, who is a member, and the *)
(* members are those of the conversation (service.go), for any number of   *)
(* users and requests that race.                                           *)
THEOREM TheRosterAgrees == Spec => []RosterAgrees
BY Invariant, PTL DEF CInv

-----------------------------------------------------------------------------
(* Two orders of locking.  Whoever changes or writes to the community      *)
(* locks it before the membership; whoever edits, comments on or likes a   *)
(* post locks the post, the membership and only then the community (role). *)
PostFirst(r) == r.action \in {"edit", "comment", "like", "unlike"}

Level(r, row) ==
  CASE row[1] = "user" -> 1
    [] row[1] = "post" -> 2
    [] row[1] = "member" -> 3
    [] row[1] = "group" -> IF PostFirst(r) THEN 4 ELSE 2

\* How far a transaction has come: the level of the row that it asks for.
Depth(c) ==
  IF pc[c] # "working" THEN 0
  ELSE IF AllLocked(c) THEN 5
  ELSE Level(asks[c], NextRow(c))

WaitsAreOrdered ==
  \A c, d \in Calls :
    d \in Blockers(c) /\ (PostFirst(asks[c]) <=> PostFirst(asks[d])) => Depth(c) < Depth(d)

(* The rows of a request are in the order of their levels, but for the two *)
(* memberships of a removal or a handover.                                 *)
LEMMA WantsOrder ==
  ASSUME NEW r \in Request
  PROVE  /\ \A n \in 1..Len(Wants(r)) :
              /\ Level(r, Wants(r)[n]) \in 1..4
              /\ ~PostFirst(r) /\ Wants(r)[n][1] = "member" => n > 2 /\ Wants(r)[2] = GroupRow
         /\ \A m, n \in 1..Len(Wants(r)) : m < n =>
              \/ Level(r, Wants(r)[m]) < Level(r, Wants(r)[n])
              \/ ~PostFirst(r) /\ m = 3 /\ Wants(r)[2] = GroupRow /\ Wants(r)[3][1] = "member"
<1>1. r.actor \in Users /\ r.user \in Users /\ r.post \in Nat /\ r.action \in Actions
  BY DEF Request
<1> DEFINE U == UserRow(r.actor)
           A == MemberRow(r.actor)
           M == MemberRow(r.user)
           P == PostRow(r.post)
           G == GroupRow
           W == Wants(r)
           L(row) == Level(r, row)
<1>2. /\ U[1] = "user" /\ A[1] = "member" /\ M[1] = "member" /\ P[1] = "post" /\ G[1] = "group"
  BY <1>1, RowsDiffer
<1>3. L(U) = 1 /\ L(P) = 2 /\ L(A) = 3 /\ L(M) = 3 /\ L(G) = IF PostFirst(r) THEN 4 ELSE 2
  BY <1>2 DEF Level
<1>4. CASE r.action \in {"create", "found"}
  <2>1. ~PostFirst(r) /\ (W = <<U>> \/ W = <<G>>)
    BY <1>4 DEF Wants, PostFirst
  <2> HIDE DEF U, G, W, L
  <2>2. Len(W) = 1 /\ W[1] \in {U, G}
    BY <2>1
  <2>3. QED
    BY <1>2, <1>3, <2>1, <2>2 DEF U, G, W, L
<1>5. CASE r.action \in {"join", "leave", "post", "announce", "remove", "transfer"}
  <2>1. ~PostFirst(r) /\ (W = <<U, G>> \/ W = <<U, G, A>> \/ W = <<U, G, A, M>>)
    BY <1>5 DEF Wants, PostFirst
  <2> HIDE DEF U, A, M, G, W, L
  <2>2. /\ Len(W) \in 2..4 /\ W[1] = U /\ W[2] = G
        /\ Len(W) > 2 => W[3] = A
        /\ Len(W) > 3 => W[4] = M
    BY <2>1
  <2>3. /\ L(W[1]) = 1 /\ L(W[2]) = 2 /\ W[1][1] = "user" /\ W[2][1] = "group"
        /\ Len(W) > 2 => L(W[3]) = 3 /\ W[3][1] = "member"
        /\ Len(W) > 3 => L(W[4]) = 3
    BY <1>2, <1>3, <2>1, <2>2
  <2>4. \A n \in 1..Len(W) : n \in {1, 2} \/ (n = 3 /\ Len(W) > 2) \/ (n = 4 /\ Len(W) > 3)
    <3>1. ASSUME NEW N \in 2..4, NEW n \in 1..N
          PROVE  n \in {1, 2} \/ (n = 3 /\ N > 2) \/ (n = 4 /\ N > 3)
      OBVIOUS
    <3>2. QED
      BY <2>2, <3>1
  <2>5. \A n \in 1..Len(W) :
          L(W[n]) \in 1..4 /\ (W[n][1] = "member" => n > 2 /\ W[2] = GroupRow)
    BY <2>2, <2>3, <2>4 DEF G
  <2>6. \A m, n \in 1..Len(W) : m < n =>
          L(W[m]) < L(W[n]) \/ (m = 3 /\ W[2] = GroupRow /\ W[3][1] = "member")
    BY <2>2, <2>3, <2>4 DEF G
  <2>7. QED
    BY <2>1, <2>5, <2>6 DEF W, L
<1>6. CASE r.action \in {"edit", "comment", "like", "unlike"}
  <2>1. PostFirst(r) /\ (W = <<U, P, A, G>> \/ W = <<P, A, G>>)
    BY <1>6 DEF Wants, PostFirst
  <2> HIDE DEF U, A, P, G, W, L
  <2>2. CASE W = <<U, P, A, G>>
    <3>1. Len(W) = 4 /\ L(W[1]) = 1 /\ L(W[2]) = 2 /\ L(W[3]) = 3 /\ L(W[4]) = 4
      BY <1>3, <2>1, <2>2
    <3>2. \A n \in 1..Len(W) : L(W[n]) = n
      BY <3>1
    <3>3. QED
      BY <2>1, <3>1, <3>2 DEF W, L
  <2>3. CASE W = <<P, A, G>>
    <3>1. Len(W) = 3 /\ L(W[1]) = 2 /\ L(W[2]) = 3 /\ L(W[3]) = 4
      BY <1>3, <2>1, <2>3
    <3>2. \A n \in 1..Len(W) : L(W[n]) = n + 1
      BY <3>1
    <3>3. QED
      BY <2>1, <3>1, <3>2 DEF W, L
  <2>4. QED
    BY <2>1, <2>2, <2>3
<1>7. QED
  BY <1>1, <1>4, <1>5, <1>6 DEF Actions, Rosters

(* A transaction does not wait for itself.                                 *)
LEMMA NextIsNotHeld ==
  ASSUME CInv, NEW c \in Calls, pc[c] = "working", ~AllLocked(c)
  PROVE  /\ Locked(c) \in Nat /\ Locked(c) + 1 \in 1..Len(Wants(asks[c]))
         /\ NextRow(c) \notin held[c]
<1> DEFINE r == asks[c]
           W == Wants(r)
           k == Locked(c)
<1>1. r \in Request
  BY CallTypes DEF CInv
<1>2. /\ Len(W) \in 1..4
      /\ \A m, n \in 1..Len(W) : m < n =>
           W[m] # W[n] \/ (r.action \in {"remove", "transfer"} /\ r.user = r.actor /\ n = 4)
  BY <1>1, WantsRows
<1>3. /\ k \in 0..Len(W) /\ held[c] = {W[n] : n \in 1..k}
      /\ r.action \in {"remove", "transfer"} /\ r.user = r.actor => k <= 2
  BY DEF CInv, PrefixesHeld, HoldsPrefix
<1>4. k \in 0..(Len(W) - 1) /\ NextRow(c) = W[k + 1]
  BY <1>2, <1>3 DEF AllLocked, NextRow
<1> HIDE DEF r, W, k
<1>5. \A n \in 1..k : W[n] # W[k + 1]
  <2>1. SUFFICES ASSUME NEW n \in 1..k PROVE W[n] # W[k + 1]
    OBVIOUS
  <2>2. n \in 1..Len(W) /\ k + 1 \in 1..Len(W) /\ n < k + 1
    BY <1>2, <1>4
  <2>3. k + 1 = 4 => k > 2
    BY <1>4
  <2>4. QED
    BY <1>2, <1>3, <1>4, <2>2, <2>3
<1>6. k \in Nat /\ k + 1 \in 1..Len(W)
  BY <1>2, <1>4
<1>7. QED
  BY <1>3, <1>4, <1>5, <1>6 DEF r, W, k

LEMMA LocksGiveOrder == CInv => WaitsAreOrdered
<1> SUFFICES ASSUME CInv, NEW c \in Calls, NEW d \in Calls, d \in Blockers(c),
                    PostFirst(asks[c]) <=> PostFirst(asks[d])
             PROVE  Depth(c) < Depth(d)
  BY DEF WaitsAreOrdered
<1> DEFINE row == NextRow(c)
           V == Wants(asks[c])
           W == Wants(asks[d])
           j == Locked(c)
           k == Locked(d)
<1>1. /\ pc[c] = "working" /\ ~AllLocked(c) /\ row \in held[d]
      /\ asks[c] \in Request /\ asks[d] \in Request
  BY CallTypes DEF Blockers, CInv
<1>2. j \in Nat /\ j + 1 \in 1..Len(V) /\ row = V[j + 1] /\ row \notin held[c]
  BY <1>1, NextIsNotHeld DEF NextRow
<1>3. /\ pc[d] = "working" /\ k \in 0..Len(W)
      /\ held[d] = {W[n] : n \in 1..k} /\ held[c] = {V[n] : n \in 1..j}
  BY <1>1 DEF CInv, PrefixesHeld, HoldsPrefix
<1>4. Len(W) \in 1..4
  BY <1>1, WantsRows
<1>5. PICK m \in 1..k : row = W[m]
  BY <1>1, <1>3
<1>6. m \in 1..Len(W)
  BY <1>3, <1>4
<1>7. Level(asks[c], row) = Level(asks[d], row) /\ Level(asks[c], row) \in 1..4
  <2>1. Level(asks[c], row) \in 1..4
    BY <1>1, <1>2, WantsOrder
  <2>2. Level(asks[c], row) = Level(asks[d], row)
    BY DEF Level
  <2>3. QED
    BY <2>1, <2>2
<1>8. Depth(c) = Level(asks[c], row)
  BY <1>1 DEF Depth
<1>9. CASE AllLocked(d)
  <2>1. Depth(d) = 5
    BY <1>3, <1>9 DEF Depth
  <2>2. QED
    BY <1>7, <1>8, <2>1
<1>10. CASE ~AllLocked(d)
  <2>1. k \in Nat /\ k + 1 \in 1..Len(W)
    BY <1>3, <1>10, NextIsNotHeld
  <2>2. Depth(d) = Level(asks[d], W[k + 1])
    BY <1>3, <1>10 DEF Depth, NextRow
  <2>3. m < k + 1
    BY <2>1
  <2>4. CASE Level(asks[d], W[m]) < Level(asks[d], W[k + 1])
    BY <1>5, <1>7, <1>8, <2>2, <2>4
  <2>5. CASE ~PostFirst(asks[d]) /\ m = 3 /\ W[2] = GroupRow /\ W[3][1] = "member"
    <3>1. 2 \in 1..k
      BY <1>5, <2>1, <2>5
    <3>2. GroupRow \in held[d]
      BY <1>3, <2>5, <3>1
    <3>3. ~PostFirst(asks[c]) /\ V[j + 1][1] = "member"
      BY <1>2, <1>5, <2>5
    <3>4. j + 1 > 2 /\ V[2] = GroupRow
      BY <1>1, <1>2, <3>3, WantsOrder
    <3>5. 2 \in 1..j
      BY <1>2, <3>4
    <3>6. GroupRow \in held[c]
      BY <1>3, <3>4, <3>5
    <3>7. c = d
      BY <3>2, <3>6 DEF CInv, TypeOK
    <3>8. QED
      BY <1>1, <1>2, <3>7
  <2>6. QED
    BY <1>1, <1>6, <2>1, <2>3, <2>4, <2>5, WantsOrder
<1>11. QED
  BY <1>9, <1>10

(* Transactions that lock in the same order never wait for each other in a *)
(* circle (Depth grows along every wait), for any number of them: what     *)
(* InnoDB has to break up is always an edit, a comment or a like of a post *)
(* against a change of the roster or a new post.                           *)
THEOREM DeadlocksMixOrders == Spec => []WaitsAreOrdered
BY LocksGiveOrder, Invariant, PTL

-----------------------------------------------------------------------------
LEMMA OthersWriteNothing ==
  ASSUME TypeOK, [Next]_vars, ~\E c \in Calls : Operation(c)
  PROVE  UNCHANGED <<owner, member, posts, requests, asks>>
BY DEF Next, Progress, Operation, Begin, Lock, Repeat, Refuse, Abort, Victim, vars, roster, content

(* Who was removed stays out (service.go:176), whatever request of his or  *)
(* of others is under way.                                                 *)
THEOREM RemovedIsForGood == Spec => RemovedStaysOut
<1>1. ASSUME CInv, [Next]_vars
      PROVE  \A u \in Users : member[u].status = "removed" => member'[u].status = "removed"
  <2>1. CASE \E c \in Calls : Operation(c)
    BY <1>1, <2>1, OperationKeepsRoster DEF RosterKept
  <2>2. CASE ~\E c \in Calls : Operation(c)
    BY <1>1, <2>2, OthersWriteNothing DEF CInv
  <2>3. QED
    BY <2>1, <2>2
<1>2. CInv /\ [Next]_vars =>
        [ \A u \in Users : member[u].status = "removed" => member'[u].status = "removed" ]_vars
  BY <1>1
<1>3. QED
  BY <1>2, Invariant, PTL DEF Spec, RemovedStaysOut

(* A post changes only from the version its editor expected, by its author *)
(* or by somebody who manages the community at that moment (EditPost).     *)
THEOREM OnlyTheAuthorisedEdit == Spec => EditsAreAuthorised
<1> DEFINE Edited(p) ==
      LET r == Last(requests').request  actor == member[r.actor] IN
      /\ requests' # requests /\ r.expected = posts[p].version
      /\ posts'[p].version = posts[p].version + 1 /\ posts[p].status # "deleted"
      /\ actor.status = "active" /\ (actor.role \in Managers \/ r.actor = posts[p].author)
      /\ posts'[p].status \notin {posts[p].status, "deleted"} => actor.role \in Managers
<1>1. ASSUME CInv, [Next]_vars, NEW p \in DOMAIN posts, posts'[p] # posts[p]
      PROVE  Edited(p)
  <2>1. PICK c \in Calls : Operation(c)
    BY <1>1, OthersWriteNothing DEF CInv
  <2>2. Authorised(c, p)
    BY <1>1, <2>1, OperationKeepsPosts DEF PostsKept
  <2>3. ~HasNoId(asks[c])
    BY <2>2 DEF Authorised, HasNoId
  <2>4. PICK reply \in Result : Records(c, reply)
    BY <1>1, <2>1, OperationEnds DEF CInv
  <2>5. PICK result \in Result : requests' = Append(requests, [request |-> asks[c], result |-> result])
    BY <2>3, <2>4 DEF Records
  <2>6. PICK saving : saving.request = asks[c] /\ requests' = Append(requests, saving)
    BY <2>5
  <2>7. requests' # requests /\ Last(requests').request = asks[c]
    <3>1. requests \in Seq(Saving)
      BY <1>1 DEF CInv, TypeOK
    <3>2. Len(requests') = Len(requests) + 1 /\ requests'[Len(requests')] = saving
          /\ Len(requests) \in Nat
      BY <2>6, <3>1
    <3>3. QED
      BY <2>6, <3>2 DEF Last
  <2>8. QED
    BY <2>2, <2>7 DEF Authorised
<1>2. CInv /\ [Next]_vars => [ \A p \in DOMAIN posts : posts'[p] # posts[p] => Edited(p) ]_vars
  BY <1>1
<1>3. QED
  BY <1>2, Invariant, PTL DEF Spec, EditsAreAuthorised

-----------------------------------------------------------------------------
(* What the ledger takes a call to be told.                                *)
Answers == [c \in Calls |-> IF HasNoId(asks[c]) THEN NotTold ELSE told[c]]

LEMMA InitLedger == Init => Ledger!Init
BY DEF Init, Ledger!Init

(* The answer of a call that has a request id is told in the ledger, that  *)
(* of another one is not.                                                  *)
LEMMA AnswerTells ==
  ASSUME CInv, NEW c \in Calls, NEW reply, pc[c] # "done", Answer(c, reply), UNCHANGED asks
  PROVE  IF HasNoId(asks[c]) THEN UNCHANGED Answers ELSE Ledger!Tell(c, reply)
<1>1. told' = [told EXCEPT ![c] = reply] /\ told[c] = NotTold /\ DOMAIN told = Calls
  BY DEF Answer, CInv, AnsweredAtTheEnd, TypeOK
<1>2. \A d \in Calls : HasNoId(asks[d])' <=> HasNoId(asks[d])
  BY DEF HasNoId
<1>3. CASE HasNoId(asks[c])
  BY <1>1, <1>2, <1>3 DEF Answers
<1>4. CASE ~HasNoId(asks[c])
  BY <1>1, <1>2, <1>4 DEF Ledger!Tell
<1>5. QED
  BY <1>3, <1>4

LEMMA StepRefinesLedger ==
  ASSUME CInv, [Next]_vars
  PROVE  Ledger!Next \/ UNCHANGED <<asks, requests, Answers>>
<1>1. TypeOK /\ requests \in Seq(Saving)
  BY DEF CInv, TypeOK
<1>2. ASSUME NEW c \in Calls, EndsQuietly(c)
      PROVE  Ledger!Next \/ UNCHANGED <<asks, requests, Answers>>
  <2>1. PICK reply \in Result :
          /\ Answer(c, reply) /\ pc[c] = "working"
          /\ \/ reply = Failed
             \/ \E n \in Saved(c) : requests[n].request = asks[c] /\ reply = requests[n].result
    BY <1>1, <1>2, QuietSteps
  <2>2. UNCHANGED <<asks, requests>>
    BY <1>1, <1>2, QuietSteps
  <2>3. IF HasNoId(asks[c]) THEN UNCHANGED Answers ELSE Ledger!Tell(c, reply)
    BY <2>1, <2>2, AnswerTells
  <2>4. ~HasNoId(asks[c]) => Ledger!Fail(c) \/ Ledger!Repeat(c)
    <3>1. SUFFICES ASSUME ~HasNoId(asks[c]) PROVE Ledger!Fail(c) \/ Ledger!Repeat(c)
      OBVIOUS
    <3>2. CASE reply = Failed
      <4>1. Ledger!Tell(c, Failed)
        BY <2>3, <3>1, <3>2 DEF Ledger!Tell
      <4>2. QED
        BY <2>2, <4>1 DEF Ledger!Fail
    <3>3. ASSUME NEW n \in Saved(c), requests[n].request = asks[c], reply = requests[n].result
          PROVE  Ledger!Repeat(c)
      <4>1. Ledger!Tell(c, requests[n].result)
        BY <2>3, <3>1, <3>3 DEF Ledger!Tell
      <4>2. QED
        BY <2>2, <3>3, <4>1 DEF Ledger!Repeat, Saved
    <3>4. QED
      BY <2>1, <3>2, <3>3
  <2>5. QED
    BY <2>2, <2>3, <2>4 DEF Ledger!Next
<1>3. ASSUME NEW c \in Calls, Operation(c)
      PROVE  Ledger!Next \/ UNCHANGED <<asks, requests, Answers>>
  <2>1. PICK reply \in Result : Answer(c, reply) /\ Records(c, reply)
    BY <1>1, <1>3, OperationEnds
  <2>2. UNCHANGED asks /\ Saved(c) = {} /\ pc[c] # "done"
    BY <1>1, <1>3, OperationEnds DEF AllLocked
  <2>3. IF HasNoId(asks[c]) THEN UNCHANGED Answers ELSE Ledger!Tell(c, reply)
    BY <2>1, <2>2, AnswerTells
  <2>4. CASE HasNoId(asks[c])
    BY <2>1, <2>2, <2>3, <2>4 DEF Records
  <2>5. CASE ~HasNoId(asks[c])
    <3>1. PICK result \in Result :
            /\ reply \in {result, Failed}
            /\ requests' = Append(requests, [request |-> asks[c], result |-> result])
      BY <2>1, <2>5 DEF Records
    <3>2. PICK saving : /\ saving.request = asks[c] /\ saving.result = result
                        /\ requests' = Append(requests, saving)
      BY <3>1
    <3>3. /\ Len(requests') = Len(requests) + 1 /\ requests'[Len(requests')] = saving
          /\ SubSeq(requests', 1, Len(requests)) = requests
      BY <1>1, <3>2
    <3>4. ~Ledger!Known(asks[c])
      BY <2>2, <2>5 DEF Ledger!Known, Saved
    <3>5. Ledger!CarryOut(c)
      BY <3>2, <3>3, <3>4 DEF Ledger!CarryOut
    <3>6. Ledger!Tell(c, requests'[Len(requests')].result) \/ Ledger!Tell(c, Failed)
      BY <2>3, <2>5, <3>1, <3>2, <3>3 DEF Ledger!Tell
    <3>7. QED
      BY <2>2, <3>5, <3>6 DEF Ledger!Next, Ledger!Perform
  <2>6. QED
    BY <2>4, <2>5
<1>4. ASSUME NEW c \in Calls, Begin(c) \/ Lock(c)
      PROVE  Ledger!Next \/ UNCHANGED <<asks, requests, Answers>>
  <2>1. UNCHANGED <<asks, requests>>
    BY <1>4 DEF Begin, Lock
  <2>2. CASE UNCHANGED told
    BY <2>1, <2>2 DEF Answers, HasNoId
  <2>3. CASE Answer(c, Failed) /\ pc[c] # "done"
    <3>1. IF HasNoId(asks[c]) THEN UNCHANGED Answers ELSE Ledger!Tell(c, Failed)
      BY <2>1, <2>3, AnswerTells
    <3>2. QED
      BY <2>1, <3>1 DEF Ledger!Next, Ledger!Fail
  <2>4. QED
    BY <1>4, <2>2, <2>3 DEF Begin, Lock
<1>5. CASE UNCHANGED vars
  BY <1>5 DEF vars, callVars, Answers, HasNoId
<1>6. QED
  BY <1>2, <1>3, <1>4, <1>5 DEF Next, Progress, Operation, EndsQuietly

(* Every request with an id is carried out once however often it is sent,  *)
(* and a success tells what was done (mutate, community_requests): the     *)
(* service implements the ledger of requests.                              *)
THEOREM RequestsAreCarriedOutOnce == Spec => ImplementsRequestLedger
<1>1. CInv /\ [Next]_vars => [Ledger!Next]_<<asks, requests, Answers>>
  BY StepRefinesLedger
<1>2. QED
  BY <1>1, InitLedger, Invariant, PTL
     DEF Spec, ImplementsRequestLedger, Ledger!Spec, Answers

=============================================================================
