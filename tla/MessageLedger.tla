---------------------------- MODULE MessageLedger ----------------------------
(***************************************************************************)
(* What sending promises: a client message enters the ledger of its        *)
(* conversation at most once, under a sequence number of its own that it   *)
(* keeps for ever, and is acknowledged only when it is in the ledger.      *)
(***************************************************************************)
EXTENDS Naturals

CONSTANT Messages     \* client message ids of one sender in one conversation

VARIABLES
  ledger,             \* [msg, seq] records
  acked               \* messages some call was answered "ok" for

vars == <<ledger, acked>>

Entries == [msg : Messages, seq : Nat]

Init == ledger = {} /\ acked = {}

\* One new entry, with a message and a number that no other entry has.
Record ==
  \E r \in ledger' :
    /\ r \in Entries
    /\ \A s \in ledger : s.msg # r.msg /\ s.seq # r.seq
    /\ ledger' = ledger \cup {r}
    /\ UNCHANGED acked

Acknowledge(m) ==
  /\ \E r \in ledger : r.msg = m
  /\ acked' = acked \cup {m}
  /\ UNCHANGED ledger

Next == Record \/ \E m \in Messages : Acknowledge(m)

Spec == Init /\ [][Next]_vars

=============================================================================
