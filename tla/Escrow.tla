------------------------------- MODULE Escrow -------------------------------
(***************************************************************************)
(* What the wallet and the red packets promise together: money enters a    *)
(* wallet once per recharge request; a sender's money moves into a pot,    *)
(* and leaves it only to members who are paid once each, or back to the    *)
(* sender.  No step creates or destroys money.                             *)
(***************************************************************************)
EXTENDS Integers

CONSTANTS
  Users,
  NoUser,       \* the owner of a pot that was never funded
  Packets,
  Requests,     \* request ids of recharges
  Amounts       \* sums a user may recharge or put into a pot

VARIABLES
  wallet,       \* [Users -> Nat]
  pot,          \* [Packets -> Nat]
  owner,        \* [Packets -> Users \cup {NoUser}]
  paid,         \* <<packet, user>> pairs
  deposited     \* <<user, request>> pairs

vars == <<wallet, pot, owner, paid, deposited>>

Init ==
  /\ wallet = [u \in Users |-> 0]
  /\ pot = [p \in Packets |-> 0]
  /\ owner = [p \in Packets |-> NoUser]
  /\ paid = {}
  /\ deposited = {}

Deposit(u, r) ==
  /\ <<u, r>> \notin deposited
  /\ deposited' = deposited \cup {<<u, r>>}
  /\ \E n \in Amounts : wallet' = [wallet EXCEPT ![u] = @ + n]
  /\ UNCHANGED <<pot, owner, paid>>

Fund(u, p) ==
  /\ owner[p] = NoUser
  /\ owner' = [owner EXCEPT ![p] = u]
  /\ \E n \in Amounts :
       /\ n <= wallet[u]
       /\ wallet' = [wallet EXCEPT ![u] = @ - n]
       /\ pot' = [pot EXCEPT ![p] = n]
  /\ UNCHANGED <<paid, deposited>>

Pay(p, u) ==
  /\ <<p, u>> \notin paid
  /\ paid' = paid \cup {<<p, u>>}
  /\ \E n \in 1..pot[p] :
       /\ wallet' = [wallet EXCEPT ![u] = @ + n]
       /\ pot' = [pot EXCEPT ![p] = @ - n]
  /\ UNCHANGED <<owner, deposited>>

Return(p) ==
  /\ pot[p] > 0
  /\ wallet' = [wallet EXCEPT ![owner[p]] = @ + pot[p]]
  /\ pot' = [pot EXCEPT ![p] = 0]
  /\ UNCHANGED <<owner, paid, deposited>>

Next ==
  \/ \E u \in Users, r \in Requests : Deposit(u, r)
  \/ \E u \in Users, p \in Packets : Fund(u, p) \/ Pay(p, u)
  \/ \E p \in Packets : Return(p)

Spec == Init /\ [][Next]_vars

=============================================================================
