------------------------- MODULE MCConversationOutbox -------------------------
(* Two messages of one conversation, a group or a chat in which they go in *)
(* opposite directions, over two workers that load one row at a time.      *)
EXTENDS ConversationOutbox, TLC

CONSTANTS w1, w2, alice, bob, chat

MCWorkers == {w1, w2}
MCUsers == {alice, bob}
MCSessions == {chat}
MCEvents == {1, 2}
MCSessionOf == [e \in MCEvents |-> chat]
MCSeqOf == [e \in MCEvents |-> e]
MCSentAtOf == [e \in MCEvents |-> e]
MCFromOf == 1 :> alice @@ 2 :> bob
MCToOf == 1 :> bob @@ 2 :> alice

=============================================================================
