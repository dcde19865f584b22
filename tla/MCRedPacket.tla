---------------------------- MODULE MCRedPacket ----------------------------
(* u1 recharges and sends a packet of 3 fen in two shares; u2 recharges and *)
(* claims, with a retry, u1 claims too and asks for the refund.            *)
EXTENDS RedPacket, TLC

CONSTANTS u1, u2, p1, q1, pay, tip, send, claim2, twice2, claim1, refund

Ask(op, user, key, amount, count) ==
  [op |-> op, user |-> user, key |-> key, amount |-> amount, count |-> count]

MCRequest ==
  (pay :> Ask("recharge", u1, q1, 3, 0)) @@ (tip :> Ask("recharge", u2, q1, 1, 0))
    @@ (send :> Ask("create", u1, p1, 3, 2))
    @@ (claim2 :> Ask("claim", u2, p1, 0, 0)) @@ (twice2 :> Ask("claim", u2, p1, 0, 0))
    @@ (claim1 :> Ask("claim", u1, p1, 0, 0))
    @@ (refund :> Ask("refund", u1, p1, 0, 0))

=============================================================================
