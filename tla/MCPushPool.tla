------------------------------ MODULE MCPushPool ------------------------------
(* Two connections of one user share a shard with room for one task; the   *)
(* second shard stays idle, and must leave all the same.                   *)
EXTENDS PushPool, TLC

CONSTANTS c1, c2, u1, s1, s2

MCSockets == {c1, c2}
MCUsers == {u1}
MCUserOf == [c \in MCSockets |-> u1]
MCShards == {s1, s2}
MCShardOf == u1 :> s1
MCMessagesOf == c1 :> 2 @@ c2 :> 1
MCCancellable == {c1}

=============================================================================
