---------------------------- MODULE MCSendMessage ----------------------------
(* Three calls: a message, its retry under the same client id, and another *)
(* message of the same conversation.                                       *)
EXTENDS SendMessage, TLC

CONSTANTS c1, c2, c3, m1, m2

MCCalls == {c1, c2, c3}
MCMessages == {m1, m2}
MCMsgOf == (c1 :> m1) @@ (c2 :> m1) @@ (c3 :> m2)

=============================================================================
