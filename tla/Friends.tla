-------------------------------- MODULE Friends --------------------------------
(***************************************************************************)
(* Friend requests (src/cmd/gateway/internal/logic/friendlogic.go).        *)
(*                                                                         *)
(* Apply looks at users and friend_relations and then, without a           *)
(* transaction, upserts the request as pending: what it looked at may be   *)
(* over by then.  Respond is one transaction: a conditional UPDATE of the  *)
(* pending request, and for an acceptance one relation row for each        *)
(* direction.  The first direction is the applicant's, so that two         *)
(* acceptances of crossed requests lock the two rows in opposite orders.   *)
(***************************************************************************)
EXTENDS Integers, FiniteSets

CONSTANTS
  People,
  Registered,      \* those with a row in users
  FriendCalls,     \* HTTP requests
  FriendScenarios  \* bound: what the calls ask, and the requests there are

Pairs == People \X People

ASSUME FriendsAssumption ==
  /\ Registered \subseteq People
  /\ \A s \in FriendScenarios :
       /\ s.wants \in [FriendCalls -> [kind : {"apply", "accept", "reject"},
                                       from : People, to : People]]
       /\ s.request \in [Pairs -> {"none", "pending", "accepted", "rejected"}]

VARIABLES
  wants,      \* the request of a call; to is the actor of a response
  request,    \* friend_requests: the status for each pair
  friends,    \* friend_relations with status normal
  at,         \* where a call stands
  holds,      \* the row locks of its transaction
  heard       \* what the call was answered

friendVars == <<wants, request, friends, at, holds, heard>>

FriendsStartAs(s) ==
  /\ wants = s.wants
  /\ request = s.request
  /\ friends = {}
  /\ at = [c \in FriendCalls |-> "new"]
  /\ holds = [c \in FriendCalls |-> {}]
  /\ heard = [c \in FriendCalls |-> "nothing"]

PairOf(c) == <<wants[c].from, wants[c].to>>
Reversed(pair) == <<pair[2], pair[1]>>

RequestRow(pair) == <<"request", pair>>
RelationRow(pair) == <<"relation", pair>>

Holders(row) == {c \in FriendCalls : row \in holds[c]}

\* Faulty: no deferred Rollback, a failed transaction keeps its locks.
HearLeaks(c, reply) ==
  /\ at' = [at EXCEPT ![c] = "done"]
  /\ heard' = [heard EXCEPT ![c] = reply]
  /\ holds' = IF reply = "error" THEN holds ELSE [holds EXCEPT ![c] = {}]

\* The call is answered, and its transaction, if any, is over.
Hear(c, reply) ==
  /\ at' = [at EXCEPT ![c] = "done"]
  /\ heard' = [heard EXCEPT ![c] = reply]
  /\ holds' = [holds EXCEPT ![c] = {}]

GoOn(c, step, row) ==
  /\ at' = [at EXCEPT ![c] = step]
  /\ holds' = [holds EXCEPT ![c] = @ \cup {row}]
  /\ UNCHANGED heard

-----------------------------------------------------------------------------
(* Apply: the user exists, and is not a friend yet.                        *)
Apply(c) ==
  /\ at[c] = "new" /\ wants[c].kind = "apply"
  /\ IF wants[c].from = wants[c].to \/ wants[c].to \notin Registered
       THEN Hear(c, "error")
     ELSE IF PairOf(c) \in friends
       THEN Hear(c, "accepted")
       ELSE at' = [at EXCEPT ![c] = "upsert"] /\ UNCHANGED <<holds, heard>>
  /\ UNCHANGED <<wants, request, friends>>

\* INSERT ... ON DUPLICATE KEY UPDATE status = 'pending', by itself.
UpsertRequest(c) ==
  /\ at[c] = "upsert" /\ Holders(RequestRow(PairOf(c))) = {}
  /\ request' = [request EXCEPT ![PairOf(c)] = "pending"]
  /\ \E reply \in {"pending", "error"} : Hear(c, reply)
  /\ UNCHANGED <<wants, friends>>

\* Faulty: a request that was answered may be answered again.
AnswerableAlways(pair) == request[pair] # "none"

\* WHERE ... status = 'pending', of the row as it is once its lock is granted.
Answerable(pair) == request[pair] = "pending"

(* Respond: the UPDATE of the request takes its row's lock.                *)
Respond(c) ==
  LET row == RequestRow(PairOf(c)) IN
  /\ at[c] = "new" /\ wants[c].kind # "apply"
  /\ Holders(row) = {}
  /\ IF Answerable(PairOf(c))
       THEN GoOn(c, IF wants[c].kind = "accept" THEN "relate" ELSE "commit", row)
       ELSE Hear(c, "error")
  /\ UNCHANGED <<wants, request, friends>>

\* The relation that the transaction upserts next.
NextRelation(c) ==
  RelationRow(IF at[c] = "relate" THEN PairOf(c) ELSE Reversed(PairOf(c)))

UpsertRelation(c) ==
  /\ at[c] \in {"relate", "relate back"}
  /\ Holders(NextRelation(c)) \subseteq {c}
  /\ GoOn(c, IF at[c] = "relate" THEN "relate back" ELSE "commit", NextRelation(c))
  /\ UNCHANGED <<wants, request, friends>>

Commit(c) ==
  LET accepts == wants[c].kind = "accept" IN
  /\ at[c] = "commit"
  /\ request' = [request EXCEPT ![PairOf(c)] = IF accepts THEN "accepted" ELSE "rejected"]
  /\ friends' = IF accepts THEN friends \cup {PairOf(c), Reversed(PairOf(c))} ELSE friends
  /\ \E reply \in {request'[PairOf(c)], "error"} : Hear(c, reply)
  /\ UNCHANGED wants

\* A statement or COMMIT fails, or the request's deadline passes.
RollBack(c) ==
  /\ at[c] \notin {"new", "done"}
  /\ Hear(c, "error")
  /\ UNCHANGED <<wants, request, friends>>

\* Each waits for a relation that the other one has locked.
Crossed(c, d) ==
  /\ c # d /\ {at[c], at[d]} \subseteq {"relate", "relate back"}
  /\ c \in Holders(NextRelation(d)) /\ d \in Holders(NextRelation(c))

(* MySQL rolls one of them back; nobody tries it again.                    *)
DeadlockVictim(c) ==
  /\ \E d \in FriendCalls : Crossed(c, d)
  /\ Hear(c, "error")
  /\ UNCHANGED <<wants, request, friends>>

FriendStep(c) ==
  Apply(c) \/ UpsertRequest(c) \/ Respond(c) \/ UpsertRelation(c) \/ Commit(c)

(* A call that has begun is carried on, and MySQL finds deadlocks.         *)
FriendFairness ==
  /\ \A c \in FriendCalls : WF_friendVars(at[c] # "new" /\ FriendStep(c))
  /\ WF_friendVars(\E c \in FriendCalls : DeadlockVictim(c))

FriendInit == \E s \in FriendScenarios : FriendsStartAs(s)

FriendNext == \E c \in FriendCalls : FriendStep(c) \/ RollBack(c) \/ DeadlockVictim(c)

FriendSpec == FriendInit /\ [][FriendNext]_friendVars

-----------------------------------------------------------------------------
(* People become friends in both directions at once, and only by an answer *)
(* of the one who was asked to a request that is pending at that moment,   *)
(* whatever answers and applications race with it (friendlogic.go:94-113). *)
FriendsByConsent ==
  [][ friends' # friends =>
        \E c \in FriendCalls :
          /\ at[c] # "done" /\ at'[c] = "done" /\ wants[c].kind = "accept"
          /\ request[PairOf(c)] = "pending" /\ request'[PairOf(c)] = "accepted"
          /\ friends' = friends \cup {PairOf(c), Reversed(PairOf(c))} ]_friendVars

(* Every call that has begun is answered, although two acceptances may     *)
(* wait for each other's relations (friendlogic.go:107-111).               *)
FriendCallsEnd == \A c \in FriendCalls : at[c] # "new" ~> at[c] = "done"

=============================================================================
