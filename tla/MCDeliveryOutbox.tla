--------------------------- MODULE MCDeliveryOutbox ---------------------------
(* Two Logic workers, two messages: a group message that fans out to two   *)
(* sinks and a direct one, with at most two attempts each.                 *)
EXTENDS DeliveryOutbox, TLC

CONSTANTS w1, w2, s1, s2

MCWorkers == {w1, w2}
MCEvents == {1, 2}
MCSinks == {s1, s2}
MCSinksOf == (1 :> {s1, s2}) @@ (2 :> {s1})

MCOneEvent == {1}
MCOneSink == 1 :> {s1}

=============================================================================
