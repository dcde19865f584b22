----------------------------- MODULE MCPendingAck -----------------------------
(* One message, which the outbox may deliver again, to a client that logs  *)
(* in up to twice.                                                         *)
EXTENDS PendingAck, TLC

CONSTANTS d1, m1

MCDeliveries == {d1}
MCMessages == {m1}
MCMsgOf == d1 :> m1
MCSeq == m1 :> 1

=============================================================================
