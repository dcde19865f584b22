-------------------------- MODULE MCTransferConsumer --------------------------
(* Two replicas share the group topic and one of them reads the retry      *)
(* topic; one group message with two recipients, which Logic may publish   *)
(* twice.                                                                  *)
EXTENDS TransferConsumer, TLC

CONSTANTS c1, c2, c3, m1, u1, u2

MCConsumers == {c1, c2, c3}
MCReaderOf == (c1 :> "main") @@ (c2 :> "main") @@ (c3 :> "retry")
MCMessages == {m1}
MCRecipients == {u1, u2}
MCRecipientsOf == m1 :> <<u1, u2>>

=============================================================================
