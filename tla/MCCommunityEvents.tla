--------------------------- MODULE MCCommunityEvents ---------------------------
(* A post for all members and a task event for one of them, two publishers *)
(* and a consumer, while members come and go.                              *)
EXTENDS CommunityEvents, TLC

CONSTANTS olga, mia, p1, p2

MCUsers == {olga, mia}
MCEvents == {1, 2}
MCTaskEvents == {2}
MCActorOf == [e \in MCEvents |-> olga]
MCRecipientOf == <<NoOne, mia>>
MCPublishers == {p1, p2}

=============================================================================
