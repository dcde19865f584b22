-------------------------- MODULE RedPacketProofs --------------------------
(* Proofs about RedPacket, for any users, packets, requests and calls.      *)
EXTENDS RedPacket, FiniteSetTheorems, TLAPS

-----------------------------------------------------------------------------
(* The strengthening: what a call's transaction may rely on between its    *)
(* statements because of the rows it has locked.                           *)

\* A row is locked by one transaction at a time.
RowsExclusive ==
  \A c, d \in Calls : c # d => holds[c] \cap holds[d] = {}

\* The rows of a packet that exists make sense together.
PacketShape ==
  \A p \in Packets :
    /\ packet[p].status = "none" <=> packet[p].sender = NoUser
    /\ packet[p].status = "active" => packet[p].amount > 0 /\ packet[p].count > 0

PathOK(c) ==
  /\ Op(c) = "recharge" => pc[c] \in {"start", "insert", "wallet", "commit", "returned"}
  /\ Op(c) = "create" => pc[c] \in {"start", "wallet", "commit", "returned"}
  /\ Op(c) = "refund" => pc[c] \in {"packet", "wallet", "commit", "returned"}
  /\ Op(c) \in {"recharge", "create"} => tx[c].does = Op(c)

\* The order is not there yet and nobody else can insert it.
RechargeOK(c) ==
  Op(c) = "recharge" =>
    /\ pc[c] \in {"insert", "wallet", "commit"} => Amount(c) > 0
    /\ pc[c] \in {"wallet", "commit"} =>
         /\ OrderKey(User(c), Key(c)) \in holds[c]
         /\ ~Ordered(User(c), Key(c))
         /\ tx[c].amount = Amount(c)

\* The packet id is fresh.
CreateOK(c) ==
  Op(c) = "create" =>
    /\ pc[c] # "returned" => packet[Key(c)].status = "none"
    /\ pc[c] \in {"wallet", "commit"} =>
         /\ tx[c].amount = Amount(c)
         /\ Amount(c) > 0
         /\ Count(c) > 0

\* The locked packet is active and can pay what the transaction planned.
PacketOK(c) ==
  Op(c) \in {"claim", "refund"} /\ pc[c] \in {"insert", "wallet", "commit"} =>
    /\ PacketRow(Key(c)) \in holds[c]
    /\ packet[Key(c)].status = "active"
    /\ \/ /\ Op(c) = "claim"
          /\ tx[c].does = "claim"
          /\ tx[c].amount \in 1..packet[Key(c)].amount
          /\ packet[Key(c)].count = 1 => tx[c].amount = packet[Key(c)].amount
          /\ pc[c] # "insert" => ~Claimed(Key(c), User(c))
       \/ /\ Op(c) = "refund" => packet[Key(c)].sender = User(c)
          /\ pc[c] # "insert"
          /\ tx[c].does = "refund"
          /\ tx[c].amount = packet[Key(c)].amount

\* The balance to be written is still the wallet's, plus or minus the sum.
WalletOK(c) ==
  pc[c] = "commit" =>
    /\ WalletRow(Payee(c)) \in holds[c]
    /\ tx[c].does # "create" => tx[c].balance = balance[Payee(c)] + tx[c].amount
    /\ tx[c].does = "create" => /\ tx[c].amount <= balance[Payee(c)]
                                /\ tx[c].balance = balance[Payee(c)] - tx[c].amount

CallOK(c) ==
  /\ PathOK(c)
  /\ RechargeOK(c)
  /\ CreateOK(c)
  /\ PacketOK(c)
  /\ WalletOK(c)
  /\ ReplyIsTrue(c)

IInv ==
  /\ TypeOK
  /\ RowsExclusive
  /\ PacketShape
  /\ BooksAgree
  /\ \A c \in Calls : CallOK(c)

\* A step of c leaves the other calls' state alone.
OnlyCall(c) ==
  /\ \E s \in Steps : pc' = [pc EXCEPT ![c] = s]
  /\ \E t \in [does : Plans, amount : Nat, balance : Nat] : tx' = [tx EXCEPT ![c] = t]
  /\ \E R \in SUBSET Rows : holds' = [holds EXCEPT ![c] = R]
  /\ \E r \in Replies : reply' = [reply EXCEPT ![c] = r]

-----------------------------------------------------------------------------
LEMMA RequestType ==
  ASSUME NEW c \in Calls
  PROVE  /\ Op(c) \in Ops
         /\ User(c) \in Users
         /\ Key(c) \in Packets \cup Requests
         /\ Op(c) # "recharge" => Key(c) \in Packets
         /\ Op(c) = "recharge" => Key(c) \in Requests
         /\ Amount(c) \in Nat
         /\ Count(c) \in Nat
  BY RedPacketAssumption DEF Op, User, Key, Amount, Count

(* A step of c that writes no table keeps the invariant if it leaves c's   *)
(* own part true and takes free rows only.                                 *)
LEMMA QuietStep ==
  ASSUME IInv, NEW c \in Calls, OnlyCall(c),
         UNCHANGED tables, past' \subseteq Packets, mishaps' \in 0..MaxMishaps,
         \A d \in Calls \ {c} : holds'[c] \cap holds[d] = {},
         CallOK(c)'
  PROVE  IInv'
<1> USE DEF IInv
<1>1. /\ \A d \in Calls \ {c} : /\ pc'[d] = pc[d]
                               /\ tx'[d] = tx[d]
                               /\ holds'[d] = holds[d]
                               /\ reply'[d] = reply[d]
  BY DEF OnlyCall, TypeOK
<1>2. TypeOK'
  <2>1. /\ pc' \in [Calls -> Steps]
        /\ tx' \in [Calls -> [does : Plans, amount : Nat, balance : Nat]]
        /\ holds' \in [Calls -> SUBSET Rows]
        /\ reply' \in [Calls -> Replies]
    BY DEF OnlyCall, TypeOK
  <2> QED BY <2>1 DEF TypeOK, tables
<1>3. RowsExclusive'
  BY <1>1 DEF RowsExclusive
<1>4. PacketShape' /\ BooksAgree'
  BY DEF PacketShape, BooksAgree, Sent, Refunded, Booking, tables
<1>5. ASSUME NEW d \in Calls \ {c} PROVE CallOK(d)'
  <2>1. CallOK(d)
    OBVIOUS
  <2> QED BY <2>1, <1>1 DEF CallOK, PathOK, RechargeOK, CreateOK, PacketOK, WalletOK,
             ReplyIsTrue, Ordered, Claimed, Booked, Payee, tables
<1> QED BY <1>2, <1>3, <1>4, <1>5


(* A call that returns without having written anything keeps the invariant *)
(* if its answer is true.                                                  *)
LEMMA AnswerStep ==
  ASSUME IInv, NEW c \in Calls, NEW r \in Replies,
         pc[c] # "returned", Answer(c, r),
         UNCHANGED tables, past' \subseteq Packets, mishaps' \in 0..MaxMishaps,
         r \in {"ok", "already"} => Booked(User(c), Op(c), Key(c)),
         r \in {"finished", "expired"} => packet[Key(c)].status = r
  PROVE  IInv'
<1> USE DEF IInv
<1>1. CallOK(c)
  OBVIOUS
<1>2. NoTx(c) \in [does : Plans, amount : Nat, balance : Nat]
  BY RequestType DEF NoTx, Plans, Ops
<1>3. OnlyCall(c)
  BY <1>2 DEF OnlyCall, Answer, Goto, Steps
<1>4. pc'[c] = "returned" /\ reply'[c] = r /\ holds'[c] = {} /\ tx'[c].does = Op(c)
  BY DEF Answer, Goto, TypeOK, NoTx
<1>5. ReplyIsTrue(c)'
  BY <1>1, <1>4 DEF ReplyIsTrue, CallOK, CreateOK, Booked, tables
<1>6. CallOK(c)'
  BY <1>4, <1>5 DEF CallOK, PathOK, RechargeOK, CreateOK, PacketOK, WalletOK
<1> QED BY <1>3, <1>4, <1>6, QuietStep

(* A step that only moves c on.                                            *)
LEMMA GotoStep ==
  ASSUME IInv, NEW c \in Calls, NEW s \in Steps, Goto(c, s),
         UNCHANGED <<tx, holds, reply>>, UNCHANGED tables,
         past' \subseteq Packets, mishaps' \in 0..MaxMishaps, CallOK(c)'
  PROVE  IInv'
<1> USE DEF IInv
<1>1. tx[c] \in [does : Plans, amount : Nat, balance : Nat] /\ tx' = [tx EXCEPT ![c] = tx[c]]
  BY DEF TypeOK
<1>2. holds[c] \in SUBSET Rows /\ holds' = [holds EXCEPT ![c] = holds[c]]
  BY DEF TypeOK
<1>3. reply[c] \in Replies /\ reply' = [reply EXCEPT ![c] = reply[c]]
  BY DEF TypeOK
<1>4. OnlyCall(c)
  BY <1>1, <1>2, <1>3 DEF OnlyCall, Goto
<1> QED BY <1>4, QuietStep DEF RowsExclusive

LEMMA StartRechargeInv ==
  ASSUME IInv, NEW c \in Calls, StartRecharge(c)
  PROVE  IInv'
<1> USE DEF IInv
<1>0. /\ UNCHANGED tables /\ past' \subseteq Packets /\ mishaps' \in 0..MaxMishaps
      /\ CallOK(c) /\ pc[c] = "start" /\ Op(c) = "recharge"
  BY DEF StartRecharge, env, TypeOK, At
<1>1. CASE Amount(c) \notin 1..MaxRecharge
  BY <1>0, <1>1, AnswerStep DEF StartRecharge, Replies
<1>2. CASE Amount(c) \in 1..MaxRecharge /\ ~Ordered(User(c), Key(c))
  <2>1. Goto(c, "insert") /\ UNCHANGED <<tx, holds, reply>>
    BY <1>2 DEF StartRecharge
  <2>2. pc'[c] = "insert"
    BY <2>1 DEF Goto, TypeOK
  <2>3. CallOK(c)'
    BY <1>0, <1>2, <2>1, <2>2, RedPacketAssumption
       DEF CallOK, PathOK, RechargeOK, CreateOK, PacketOK, WalletOK, ReplyIsTrue, Booked, tables
  <2> QED BY <1>0, <2>1, <2>3, GotoStep DEF Steps
<1>3. CASE Amount(c) \in 1..MaxRecharge /\ Ordered(User(c), Key(c))
  <2>1. PICK r \in {"already", "invalid"} : Answer(c, r)
    BY <1>3 DEF StartRecharge
  <2>2. Booked(User(c), "recharge", Key(c))
    <3>1. PICK o \in orders : o.user = User(c) /\ o.key = Key(c)
      BY <1>3 DEF Ordered
    <3>2. [user |-> o.user, type |-> "recharge", key |-> o.key, amount |-> o.amount] \in ledger
      BY DEF BooksAgree, Booking
    <3> QED BY <3>1, <3>2 DEF Booked
  <2> QED BY <1>0, <2>1, <2>2, AnswerStep DEF Replies
<1> QED BY <1>1, <1>2, <1>3


LEMMA InsertOrderInv ==
  ASSUME IInv, NEW c \in Calls, InsertOrder(c)
  PROVE  IInv'
<1> USE DEF IInv
<1>0. /\ UNCHANGED tables /\ past' \subseteq Packets /\ mishaps' \in 0..MaxMishaps
      /\ reply' = reply /\ CallOK(c) /\ pc[c] = "insert" /\ Op(c) = "recharge"
  BY DEF InsertOrder, env, TypeOK, At
<1> DEFINE row == OrderKey(User(c), Key(c))
<1>1. CASE Ordered(User(c), Key(c))
  <2>1. Goto(c, "start") /\ UNCHANGED <<tx, holds>>
    BY <1>1 DEF InsertOrder
  <2>2. pc'[c] = "start"
    BY <2>1 DEF Goto, TypeOK
  <2>3. CallOK(c)'
    BY <1>0, <2>1, <2>2
       DEF CallOK, PathOK, RechargeOK, CreateOK, PacketOK, WalletOK, ReplyIsTrue, Booked, tables
  <2> QED BY <1>0, <2>1, <2>3, GotoStep DEF Steps
<1>2. CASE ~Ordered(User(c), Key(c))
  <2>1. /\ Goto(c, "wallet") /\ Lock(c, row) /\ Free(c, row)
        /\ tx' = [tx EXCEPT ![c].amount = Amount(c)]
    BY <1>2 DEF InsertOrder
  <2>2. row \in Rows
    BY <1>0, RequestType DEF Rows
  <2>3. /\ pc'[c] = "wallet" /\ holds'[c] = holds[c] \cup {row} /\ reply'[c] = reply[c]
        /\ tx'[c] = [tx[c] EXCEPT !.amount = Amount(c)]
    BY <1>0, <2>1 DEF Goto, Lock, TypeOK
  <2>4. OnlyCall(c)
    <3>1. tx'[c] \in [does : Plans, amount : Nat, balance : Nat] /\ tx' = [tx EXCEPT ![c] = tx'[c]]
      BY <2>1, <2>3, RequestType DEF TypeOK
    <3>2. holds'[c] \in SUBSET Rows /\ holds' = [holds EXCEPT ![c] = holds'[c]]
      BY <2>1, <2>2, <2>3 DEF TypeOK, Lock
    <3>3. reply[c] \in Replies /\ reply' = [reply EXCEPT ![c] = reply[c]]
      BY <1>0 DEF TypeOK
    <3> QED BY <2>1, <3>1, <3>2, <3>3 DEF OnlyCall, Goto, Steps
  <2>5. tx'[c].does = "recharge" /\ tx'[c].amount = Amount(c)
    BY <1>0, <2>3 DEF TypeOK, CallOK, PathOK
  <2>6. CallOK(c)'
    BY <1>0, <1>2, <2>3, <2>5 DEF CallOK, PathOK, RechargeOK, CreateOK, PacketOK, WalletOK,
       ReplyIsTrue, Booked, Ordered, tables
  <2>7. \A d \in Calls \ {c} : holds'[c] \cap holds[d] = {}
    BY <2>1, <2>3 DEF RowsExclusive, Free
  <2> QED BY <1>0, <2>4, <2>6, <2>7, QuietStep
<1> QED BY <1>1, <1>2

LEMMA StartCreateInv ==
  ASSUME IInv, NEW c \in Calls, StartCreate(c)
  PROVE  IInv'
<1> USE DEF IInv
<1>0. /\ UNCHANGED tables /\ past' \subseteq Packets /\ mishaps' \in 0..MaxMishaps
      /\ CallOK(c) /\ pc[c] = "start" /\ Op(c) = "create"
  BY DEF StartCreate, env, TypeOK, At
<1>1. CASE Answer(c, "invalid")
  BY <1>0, <1>1, AnswerStep DEF Replies
<1>2. CASE ~Answer(c, "invalid")
  <2>1. /\ Amount(c) # 0 /\ Count(c) \in 1..MaxCount
        /\ Goto(c, "wallet") /\ tx' = [tx EXCEPT ![c].amount = Amount(c)]
        /\ UNCHANGED <<holds, reply>>
    BY <1>2 DEF StartCreate
  <2>2. /\ pc'[c] = "wallet" /\ tx'[c] = [tx[c] EXCEPT !.amount = Amount(c)]
    BY <2>1 DEF Goto, TypeOK
  <2>3. OnlyCall(c)
    <3>1. tx'[c] \in [does : Plans, amount : Nat, balance : Nat] /\ tx' = [tx EXCEPT ![c] = tx'[c]]
      BY <2>1, <2>2, RequestType DEF TypeOK
    <3>2. holds[c] \in SUBSET Rows /\ holds' = [holds EXCEPT ![c] = holds[c]]
      BY <2>1 DEF TypeOK
    <3>3. reply[c] \in Replies /\ reply' = [reply EXCEPT ![c] = reply[c]]
      BY <2>1 DEF TypeOK
    <3> QED BY <2>1, <3>1, <3>2, <3>3 DEF OnlyCall, Goto, Steps
  <2>4. tx'[c].does = "create" /\ tx'[c].amount = Amount(c)
    BY <1>0, <2>2 DEF TypeOK, CallOK, PathOK
  <2>5. CallOK(c)'
    BY <1>0, <2>1, <2>2, <2>4, RequestType, RedPacketAssumption
       DEF CallOK, PathOK, RechargeOK, CreateOK, PacketOK, WalletOK, ReplyIsTrue, Booked, tables
  <2> QED BY <1>0, <2>1, <2>3, <2>5, QuietStep DEF RowsExclusive
<1> QED BY <1>1, <1>2

LEMMA StartClaimInv ==
  ASSUME IInv, NEW c \in Calls, StartClaim(c) \/ Precheck(c)
  PROVE  IInv'
<1> USE DEF IInv
<1>0. /\ UNCHANGED tables /\ past' \subseteq Packets /\ mishaps' \in 0..MaxMishaps
      /\ CallOK(c) /\ Op(c) = "claim" /\ pc[c] # "returned"
  BY RequestType DEF StartClaim, Precheck, env, TypeOK, At, CallOK, PathOK, Ops
<1>1. CASE Answer(c, "notfound")
  BY <1>0, <1>1, AnswerStep DEF Replies
<1>2. CASE Claimed(Key(c), User(c)) /\ Answer(c, "already")
  <2>1. PICK k \in claims : k.user = User(c) /\ k.key = Key(c)
    BY <1>2 DEF Claimed
  <2>2. [user |-> k.user, type |-> "claim", key |-> k.key, amount |-> k.amount] \in ledger
    BY DEF BooksAgree, Booking
  <2>3. Booked(User(c), Op(c), Key(c))
    BY <1>0, <2>1, <2>2 DEF Booked
  <2> QED BY <1>0, <1>2, <2>3, AnswerStep DEF Replies
<1>3. ASSUME NEW s \in {"precheck", "packet"}, Goto(c, s), UNCHANGED <<tx, holds, reply>>
      PROVE  IInv'
  <2>1. pc'[c] = s
    BY <1>3 DEF Goto, TypeOK
  <2>2. CallOK(c)'
    BY <1>0, <1>3, <2>1
       DEF CallOK, PathOK, RechargeOK, CreateOK, PacketOK, WalletOK, ReplyIsTrue, Booked, tables
  <2> QED BY <1>0, <1>3, <2>2, GotoStep DEF Steps
<1> QED BY <1>1, <1>2, <1>3 DEF StartClaim, Precheck


(* What a verdict says about the packet it was reached on.                 *)
LEMMA VerdictFacts ==
  ASSUME IInv, NEW c \in Calls, Op(c) \in {"claim", "refund"}
  PROVE  /\ Verdict(c) \in (Replies \ {"ok"}) \cup {"claim", "refund"}
         /\ Verdict(c) = "already" => Booked(User(c), Op(c), Key(c))
         /\ Verdict(c) \in {"finished", "expired"} => packet[Key(c)].status = Verdict(c)
         /\ Verdict(c) \in {"claim", "refund"} => packet[Key(c)].status = "active"
         /\ Verdict(c) = "claim" => /\ Op(c) = "claim"
                                    /\ Share(packet[Key(c)]) \in 1..packet[Key(c)].amount
                                    /\ packet[Key(c)].count = 1 =>
                                         Share(packet[Key(c)]) = packet[Key(c)].amount
         /\ Verdict(c) = "refund" /\ Op(c) = "refund" => packet[Key(c)].sender = User(c)
<1> USE DEF IInv
<1>1. /\ Key(c) \in Packets
      /\ packet[Key(c)].status \in {"none", "active", "finished", "expired"}
      /\ packet[Key(c)].amount \in Nat /\ packet[Key(c)].count \in Nat
      /\ packet[Key(c)].status = "active" => packet[Key(c)].amount > 0 /\ packet[Key(c)].count > 0
  BY RequestType DEF TypeOK, PacketShape
<1>2. CASE Op(c) = "claim"
  <2>1. packet[Key(c)].count = 1 => Share(packet[Key(c)]) = packet[Key(c)].amount
    BY DEF Share
  <2> QED BY <1>1, <1>2, <2>1 DEF Verdict, ClaimVerdict, Replies
<1>3. CASE Op(c) = "refund"
  BY <1>1, <1>3 DEF Verdict, RefundVerdict, Replies
<1> QED BY <1>2, <1>3

LEMMA LockPacketInv ==
  ASSUME IInv, NEW c \in Calls, LockPacket(c)
  PROVE  IInv'
<1> USE DEF IInv
<1> DEFINE p == packet[Key(c)]
           v == Verdict(c)
           row == PacketRow(Key(c))
           n == IF v = "claim" THEN Share(p) ELSE p.amount
           next == IF v = "claim" THEN "insert" ELSE "wallet"
<1>0. /\ UNCHANGED tables /\ past' \subseteq Packets /\ mishaps' \in 0..MaxMishaps
      /\ CallOK(c) /\ pc[c] = "packet" /\ Op(c) \in {"claim", "refund"} /\ Free(c, row)
      /\ Key(c) \in Packets
  BY RequestType DEF LockPacket, env, TypeOK, At, CallOK, PathOK, Ops
<1>1. CASE v \notin Plans
  <2>1. Answer(c, v)
    BY <1>1 DEF LockPacket
  <2> QED BY <1>0, <1>1, <2>1, VerdictFacts, AnswerStep DEF Plans
<1>2. CASE v \in {"claim", "refund"}
  <2>1. p.status = "active" /\ p.amount \in Nat /\ p.amount > 0
    BY <1>0, <1>2, VerdictFacts DEF TypeOK, PacketShape
  <2>2. n \in 1..p.amount
    BY <1>0, <1>2, <2>1, VerdictFacts
  <2>3. /\ Lock(c, row) /\ UNCHANGED reply
        /\ tx' = [tx EXCEPT ![c].does = v, ![c].amount = n]
        /\ Goto(c, next)
    BY <1>2, <2>1 DEF LockPacket, Plans
  <2>4. row \in Rows
    BY <1>0 DEF Rows
  <2>5. /\ pc'[c] = next /\ holds'[c] = holds[c] \cup {row} /\ reply'[c] = reply[c]
        /\ tx'[c] = [tx[c] EXCEPT !.does = v, !.amount = n]
    BY <2>3 DEF Goto, Lock, TypeOK
  <2>6. OnlyCall(c)
    <3>1. tx'[c] \in [does : Plans, amount : Nat, balance : Nat] /\ tx' = [tx EXCEPT ![c] = tx'[c]]
      <4>1. v \in Plans /\ n \in Nat
        BY <1>2, <2>1, <2>2 DEF Plans
      <4> HIDE DEF v, n, next, row
      <4>2. tx' = [tx EXCEPT ![c] = tx'[c]]
        BY <2>3, <2>5 DEF TypeOK
      <4> QED BY <2>5, <4>1, <4>2 DEF TypeOK
    <3>2. holds'[c] \in SUBSET Rows /\ holds' = [holds EXCEPT ![c] = holds'[c]]
      BY <2>3, <2>4, <2>5 DEF TypeOK, Lock
    <3>3. reply[c] \in Replies /\ reply' = [reply EXCEPT ![c] = reply[c]]
      BY <2>3 DEF TypeOK
    <3>4. next \in Steps
      BY DEF Steps
    <3> QED BY <2>3, <3>1, <3>2, <3>3, <3>4 DEF OnlyCall, Goto
  <2>7. tx'[c].does = v /\ tx'[c].amount = n
    BY <2>5 DEF TypeOK
  <2>8. PacketOK(c)'
    BY <1>0, <1>2, <2>1, <2>2, <2>5, <2>7, VerdictFacts DEF PacketOK, tables, CallOK, PathOK, Claimed
  <2>9. PathOK(c)' /\ RechargeOK(c)' /\ CreateOK(c)' /\ WalletOK(c)' /\ ReplyIsTrue(c)'
    BY <1>0, <1>2, <2>5, VerdictFacts
       DEF CallOK, PathOK, RechargeOK, CreateOK, WalletOK, ReplyIsTrue, Booked, tables
  <2>10. \A d \in Calls \ {c} : holds'[c] \cap holds[d] = {}
    BY <1>0, <2>5 DEF RowsExclusive, Free
  <2> QED BY <1>0, <2>6, <2>8, <2>9, <2>10, QuietStep DEF CallOK
<1> QED BY <1>0, <1>1, <1>2, VerdictFacts DEF Replies, Plans

LEMMA InsertClaimInv ==
  ASSUME IInv, NEW c \in Calls, InsertClaim(c)
  PROVE  IInv'
<1> USE DEF IInv
<1> DEFINE rows == {ClaimKey(User(c), Key(c)), PacketRow(Key(c))}
<1>0. /\ UNCHANGED tables /\ past' \subseteq Packets /\ mishaps' \in 0..MaxMishaps
      /\ CallOK(c) /\ pc[c] = "insert" /\ Op(c) = "claim" /\ \A row \in rows : Free(c, row)
      /\ Key(c) \in Packets
  BY RequestType DEF InsertClaim, env, TypeOK, At
<1>1. CASE Claimed(Key(c), User(c))
  <2>1. PICK k \in claims : k.user = User(c) /\ k.key = Key(c)
    BY <1>1 DEF Claimed
  <2>2. [user |-> k.user, type |-> "claim", key |-> k.key, amount |-> k.amount] \in ledger
    BY DEF BooksAgree, Booking
  <2>3. Booked(User(c), Op(c), Key(c))
    BY <1>0, <2>1, <2>2 DEF Booked
  <2>4. Answer(c, "already")
    BY <1>1 DEF InsertClaim
  <2> QED BY <1>0, <2>3, <2>4, AnswerStep DEF Replies
<1>2. CASE ~Claimed(Key(c), User(c))
  <2>1. ~(packet[Key(c)].amount < tx[c].amount \/ packet[Key(c)].count = 0)
    BY <1>0 DEF CallOK, PacketOK, PacketShape, TypeOK
  <2>2. /\ Goto(c, "wallet") /\ UNCHANGED <<tx, reply>>
        /\ holds' = [holds EXCEPT ![c] = @ \cup rows]
    BY <1>2, <2>1 DEF InsertClaim
  <2>3. rows \subseteq Rows
    BY <1>0, RequestType DEF Rows
  <2>4. pc'[c] = "wallet" /\ holds'[c] = holds[c] \cup rows
    BY <2>2 DEF Goto, TypeOK
  <2>5. OnlyCall(c)
    <3>1. tx[c] \in [does : Plans, amount : Nat, balance : Nat] /\ tx' = [tx EXCEPT ![c] = tx[c]]
      BY <2>2 DEF TypeOK
    <3>2. holds'[c] \in SUBSET Rows /\ holds' = [holds EXCEPT ![c] = holds'[c]]
      BY <2>2, <2>3, <2>4 DEF TypeOK
    <3>3. reply[c] \in Replies /\ reply' = [reply EXCEPT ![c] = reply[c]]
      BY <2>2 DEF TypeOK
    <3> QED BY <2>2, <3>1, <3>2, <3>3 DEF OnlyCall, Goto, Steps
  <2>6. CallOK(c)'
    BY <1>0, <1>2, <2>2, <2>4 DEF CallOK, PathOK, RechargeOK, CreateOK, PacketOK, WalletOK,
       ReplyIsTrue, Booked, Claimed, tables
  <2>7. \A d \in Calls \ {c} : holds'[c] \cap holds[d] = {}
    BY <1>0, <2>4 DEF RowsExclusive, Free
  <2> QED BY <1>0, <2>5, <2>6, <2>7, QuietStep
<1> QED BY <1>1, <1>2

(* At its wallet statement a call has a plan for a positive sum.           *)
LEMMA PlanFacts ==
  ASSUME IInv, NEW c \in Calls, pc[c] \in {"wallet", "commit"}
  PROVE  /\ tx[c].amount \in Nat /\ tx[c].amount > 0
         /\ Payee(c) \in Users
         /\ Op(c) \in {"recharge", "create"} => tx[c].does = Op(c)
         /\ Op(c) = "claim" => tx[c].does \in {"claim", "refund"}
         /\ Op(c) = "refund" => tx[c].does = "refund"
<1> USE DEF IInv
<1>1. CallOK(c) /\ tx[c].amount \in Nat
  BY DEF TypeOK
<1>2. CASE Op(c) \in {"recharge", "create"}
  BY <1>1, <1>2, RequestType DEF CallOK, PathOK, RechargeOK, CreateOK, Payee
<1>3. CASE Op(c) \in {"claim", "refund"}
  <2>1. /\ Key(c) \in Packets /\ packet[Key(c)].status = "active"
        /\ packet[Key(c)].amount > 0 /\ packet[Key(c)].sender \in Users
    BY <1>1, <1>3, RequestType DEF CallOK, PacketOK, PacketShape, TypeOK
  <2> QED BY <1>1, <1>3, <2>1, RequestType DEF CallOK, PacketOK, Payee
<1> QED BY <1>2, <1>3, RequestType DEF Ops

LEMMA LockWalletInv ==
  ASSUME IInv, NEW c \in Calls, LockWallet(c)
  PROVE  IInv'
<1> USE DEF IInv
<1> DEFINE u == Payee(c)
           d == tx[c].does
           n == tx[c].amount
           row == WalletRow(u)
           after == IF d = "create" THEN balance[u] - n ELSE balance[u] + n
<1>0. /\ UNCHANGED tables /\ past' \subseteq Packets /\ mishaps' \in 0..MaxMishaps
      /\ CallOK(c) /\ pc[c] = "wallet" /\ Free(c, row) /\ n \in Nat /\ u \in Users
      /\ balance[u] \in Nat
  BY PlanFacts DEF LockWallet, env, TypeOK, At
<1>1. CASE Short(c)
  BY <1>0, <1>1, AnswerStep DEF LockWallet, Replies
<1>2. CASE ~Short(c) /\ Booked(u, d, Key(c))
  BY <1>0, <1>2, AnswerStep DEF LockWallet, Replies
<1>3. CASE ~Short(c) /\ ~Booked(u, d, Key(c))
  <2>1. /\ Lock(c, row) /\ Goto(c, "commit") /\ UNCHANGED reply
        /\ tx' = [tx EXCEPT ![c].balance = after]
    BY <1>3 DEF LockWallet
  <2>2. d = "create" => u = User(c) /\ n <= balance[u]
    BY <1>0, <1>3 DEF Short, Payee
  <2>3. after \in Nat
    BY <1>0, <2>2
  <2>4. row \in Rows
    BY <1>0 DEF Rows
  <2>5. /\ pc'[c] = "commit" /\ holds'[c] = holds[c] \cup {row} /\ reply'[c] = reply[c]
        /\ tx'[c] = [tx[c] EXCEPT !.balance = after]
    BY <2>1 DEF Goto, Lock, TypeOK
  <2>6. tx'[c].does = d /\ tx'[c].amount = n /\ tx'[c].balance = after
    BY <2>5 DEF TypeOK
  <2>7. OnlyCall(c)
    <3>1. tx'[c] \in [does : Plans, amount : Nat, balance : Nat] /\ tx' = [tx EXCEPT ![c] = tx'[c]]
      BY <2>1, <2>3, <2>5 DEF TypeOK
    <3>2. holds'[c] \in SUBSET Rows /\ holds' = [holds EXCEPT ![c] = holds'[c]]
      BY <2>1, <2>4, <2>5 DEF TypeOK, Lock
    <3>3. reply[c] \in Replies /\ reply' = [reply EXCEPT ![c] = reply[c]]
      BY <2>1 DEF TypeOK
    <3> QED BY <2>1, <3>1, <3>2, <3>3 DEF OnlyCall, Goto, Steps
  <2>8. Payee(c)' = u /\ balance' = balance
    BY <1>0, <2>6 DEF Payee, tables
  <2>9. WalletOK(c)'
    BY <2>2, <2>5, <2>6, <2>8 DEF WalletOK
  <2>10. PathOK(c)' /\ RechargeOK(c)' /\ CreateOK(c)' /\ PacketOK(c)' /\ ReplyIsTrue(c)'
    BY <1>0, <2>5, <2>6 DEF CallOK, PathOK, RechargeOK, CreateOK, PacketOK, ReplyIsTrue,
       Booked, Ordered, Claimed, tables
  <2>11. \A e \in Calls \ {c} : holds'[c] \cap holds[e] = {}
    BY <1>0, <2>5 DEF RowsExclusive, Free
  <2> QED BY <1>0, <2>7, <2>9, <2>10, <2>11, QuietStep DEF CallOK
<1> QED BY <1>1, <1>2, <1>3


-----------------------------------------------------------------------------
(* What a commit writes, in terms of what the call had locked.             *)
LEMMA CommitFacts ==
  ASSUME IInv, NEW c \in Calls, Commit(c)
  PROVE  /\ pc[c] = "commit" /\ CallOK(c)
         /\ tx[c].amount \in Nat /\ tx[c].amount > 0
         /\ Payee(c) \in Users
         /\ tx[c].balance \in Nat
         /\ WalletRow(Payee(c)) \in holds[c]
         /\ balance' = [balance EXCEPT ![Payee(c)] = tx[c].balance]
         /\ ledger' = ledger \cup {[user |-> Payee(c), type |-> tx[c].does,
                                    key |-> Key(c), amount |-> tx[c].amount]}
         /\ past' = past /\ mishaps' \in 0..MaxMishaps
         /\ pc' = [pc EXCEPT ![c] = "returned"]
         /\ holds' = [holds EXCEPT ![c] = {}]
         /\ tx' = [tx EXCEPT ![c] = NoTx(c)]
         /\ reply' = [reply EXCEPT ![c] = Final(c)] \/ reply' = [reply EXCEPT ![c] = "failed"]
<1> USE DEF IInv
<1>1. pc[c] = "commit" /\ CallOK(c)
  BY DEF Commit, At
<1>2. tx[c].amount \in Nat /\ tx[c].amount > 0 /\ Payee(c) \in Users /\ tx[c].does # "finish"
  BY <1>1, PlanFacts, RequestType DEF Ops
<1>3. tx[c].balance \in Nat
  BY DEF TypeOK
<1>4. WalletRow(Payee(c)) \in holds[c]
  BY <1>1 DEF CallOK, WalletOK
<1>5. /\ balance' = [balance EXCEPT ![Payee(c)] = tx[c].balance]
      /\ ledger' = ledger \cup {[user |-> Payee(c), type |-> tx[c].does,
                                 key |-> Key(c), amount |-> tx[c].amount]}
  BY <1>2 DEF Commit
<1>6. past' = past /\ mishaps' \in 0..MaxMishaps
  BY RedPacketAssumption DEF Commit, TypeOK, Mishap
<1>7. Answer(c, Final(c)) \/ Answer(c, "failed")
  BY DEF Commit
<1> QED BY <1>1, <1>2, <1>3, <1>4, <1>5, <1>6, <1>7 DEF Answer, Goto

(* The four kinds of transaction.                                          *)
LEMMA CommitKinds ==
  ASSUME IInv, NEW c \in Calls, Commit(c)
  PROVE  \/ /\ Op(c) = "recharge" /\ tx[c].does = "recharge" /\ Payee(c) = User(c)
            /\ orders' = orders \cup {[user |-> User(c), key |-> Key(c), amount |-> tx[c].amount]}
            /\ claims' = claims /\ packet' = packet
            /\ OrderKey(User(c), Key(c)) \in holds[c]
         \/ /\ Op(c) = "create" /\ tx[c].does = "create" /\ Payee(c) = User(c)
            /\ orders' = orders /\ claims' = claims
            /\ packet' = [packet EXCEPT ![Key(c)] =
                 [status |-> "active", sender |-> User(c), total |-> tx[c].amount,
                  parts |-> Count(c), amount |-> tx[c].amount, count |-> Count(c)]]
            /\ packet[Key(c)].status = "none" /\ Count(c) > 0
         \/ /\ Op(c) = "claim" /\ tx[c].does = "claim" /\ Payee(c) = User(c)
            /\ orders' = orders
            /\ claims' = claims \cup {[user |-> User(c), key |-> Key(c), amount |-> tx[c].amount]}
            /\ ~Claimed(Key(c), User(c))
            /\ tx[c].amount \in 1..packet[Key(c)].amount
            /\ packet[Key(c)].status = "active" /\ PacketRow(Key(c)) \in holds[c]
            /\ \E s \in {"active", "finished"} :
                 /\ packet' = [packet EXCEPT ![Key(c)] =
                      [packet[Key(c)] EXCEPT !.amount = @ - tx[c].amount,
                                             !.count = @ - 1, !.status = s]]
                 /\ s = "active" => /\ packet[Key(c)].count # 1
                                    /\ packet[Key(c)].amount # tx[c].amount
                 /\ s = "finished" => packet[Key(c)].amount = tx[c].amount
         \/ /\ Op(c) \in {"claim", "refund"} /\ tx[c].does = "refund"
            /\ Payee(c) = packet[Key(c)].sender
            /\ Op(c) = "refund" => Payee(c) = User(c)
            /\ orders' = orders /\ claims' = claims
            /\ tx[c].amount = packet[Key(c)].amount
            /\ packet[Key(c)].status = "active" /\ PacketRow(Key(c)) \in holds[c]
            /\ packet' = [packet EXCEPT ![Key(c)] = [packet[Key(c)] EXCEPT !.status = "expired"]]
<1> USE DEF IInv
<1>1. pc[c] = "commit" /\ CallOK(c)
  BY CommitFacts
<1>2. CASE Op(c) = "recharge"
  BY <1>1, <1>2 DEF Commit, CallOK, PathOK, RechargeOK, Payee
<1>3. CASE Op(c) = "create"
  BY <1>1, <1>3 DEF Commit, CallOK, PathOK, CreateOK, Payee, After
<1>4. CASE Op(c) \in {"claim", "refund"} /\ tx[c].does = "refund"
  BY <1>1, <1>4 DEF Commit, CallOK, PacketOK, Payee, After
<1>5. CASE Op(c) = "claim" /\ tx[c].does = "claim"
  <2>1. /\ packet' = [packet EXCEPT ![Key(c)] = After(c)]
        /\ claims' = claims \cup {[user |-> User(c), key |-> Key(c), amount |-> tx[c].amount]}
        /\ orders' = orders
    BY <1>1, <1>5 DEF Commit, Payee
  <2>2. After(c) = [packet[Key(c)] EXCEPT !.amount = @ - tx[c].amount, !.count = @ - 1,
                      !.status = IF \/ packet[Key(c)].count = 1
                                    \/ packet[Key(c)].amount = tx[c].amount
                                   THEN "finished" ELSE "active"]
    BY <1>5 DEF After, Taken
  <2> QED BY <1>1, <1>5, <2>1, <2>2 DEF CallOK, PacketOK, Payee
<1> QED BY <1>1, <1>2, <1>3, <1>4, <1>5, RequestType DEF Ops, CallOK, PacketOK


LEMMA CommitShape ==
  ASSUME IInv, NEW c \in Calls, Commit(c)
  PROVE  TypeOK' /\ RowsExclusive' /\ PacketShape'
<1> USE DEF IInv
<1> DEFINE k == Key(c)
           n == tx[c].amount
           Shape == [status : {"none", "active", "finished", "expired"},
                     sender : Users \cup {NoUser}, total : Nat, parts : Nat,
                     amount : Nat, count : Nat]
<1>1. packet \in [Packets -> Shape] /\ User(c) \in Users /\ Count(c) \in Nat /\ n \in Nat /\ n > 0
  BY CommitFacts, RequestType DEF TypeOK
<1>2. Op(c) # "recharge" =>
        /\ k \in Packets
        /\ packet' = [packet EXCEPT ![k] = packet'[k]]
        /\ packet'[k] \in Shape
        /\ packet'[k].status # "none"
        /\ packet'[k].sender \in Users
        /\ packet'[k].status = "active" => packet'[k].amount > 0 /\ packet'[k].count > 0
  <2>1. SUFFICES ASSUME Op(c) # "recharge", k \in Packets
                 PROVE  /\ packet' = [packet EXCEPT ![k] = packet'[k]]
                        /\ packet'[k] \in Shape
                        /\ packet'[k].status # "none"
                        /\ packet'[k].sender \in Users
                        /\ packet'[k].status = "active" =>
                             packet'[k].amount > 0 /\ packet'[k].count > 0
    BY RequestType
  <2>2. packet[k].status = "active" => packet[k].sender \in Users
    BY <1>1, <2>1 DEF PacketShape
  <2>3. CASE Op(c) = "create"
    <3>1. packet'[k] = [status |-> "active", sender |-> User(c), total |-> n,
                        parts |-> Count(c), amount |-> n, count |-> Count(c)]
      BY <1>1, <2>1, <2>3, CommitKinds
    <3>2. packet' = [packet EXCEPT ![k] = packet'[k]] /\ Count(c) > 0
      BY <1>1, <2>1, <2>3, <3>1, CommitKinds
    <3> QED BY <1>1, <3>1, <3>2
  <2>4. CASE tx[c].does = "claim"
    <3>1. PICK s \in {"active", "finished"} :
            /\ packet' = [packet EXCEPT ![k] = [packet[k] EXCEPT !.amount = @ - n,
                                                !.count = @ - 1, !.status = s]]
            /\ s = "active" => packet[k].count # 1 /\ packet[k].amount # n
      BY <2>4, CommitKinds
    <3>2. packet[k].status = "active" /\ n \in 1..packet[k].amount
      BY <2>4, CommitKinds
    <3>3. packet[k].amount \in Nat /\ packet[k].count \in Nat /\ packet[k].count > 0
      BY <1>1, <2>1, <3>2 DEF PacketShape
    <3>4. packet'[k] = [packet[k] EXCEPT !.amount = @ - n, !.count = @ - 1, !.status = s]
      BY <1>1, <2>1, <3>1
    <3>5. /\ packet'[k].amount = packet[k].amount - n /\ packet'[k].amount \in Nat
          /\ packet'[k].count = packet[k].count - 1 /\ packet'[k].count \in Nat
          /\ packet'[k].status = s /\ packet'[k].sender = packet[k].sender
          /\ packet'[k].total = packet[k].total /\ packet'[k].parts = packet[k].parts
      BY <1>1, <2>1, <3>2, <3>3, <3>4
    <3>6. packet'[k] \in Shape
      <4>1. packet'[k] = [status |-> packet'[k].status, sender |-> packet'[k].sender,
                          total |-> packet'[k].total, parts |-> packet'[k].parts,
                          amount |-> packet'[k].amount, count |-> packet'[k].count]
        BY <1>1, <2>1, <3>4
      <4> QED BY <1>1, <2>1, <3>5, <4>1
    <3>7. packet' = [packet EXCEPT ![k] = packet'[k]]
      BY <3>1, <3>4
    <3> QED BY <2>2, <3>1, <3>2, <3>3, <3>5, <3>6, <3>7
  <2>5. CASE tx[c].does = "refund"
    <3>1. /\ packet' = [packet EXCEPT ![k] = [packet[k] EXCEPT !.status = "expired"]]
          /\ packet[k].status = "active"
      BY <2>5, CommitKinds
    <3>2. packet'[k] = [packet[k] EXCEPT !.status = "expired"]
      BY <1>1, <2>1, <3>1
    <3> QED BY <1>1, <2>1, <2>2, <3>1, <3>2
  <2> QED BY <2>1, <2>3, <2>4, <2>5, CommitKinds
<1>3. packet' \in [Packets -> Shape]
  <2>1. CASE Op(c) = "recharge"
    BY <1>1, <2>1, CommitKinds
  <2>2. CASE Op(c) # "recharge"
    BY <1>1, <1>2, <2>2
  <2> QED BY <2>1, <2>2
<1>4. PacketShape'
  <2>1. CASE Op(c) = "recharge"
    BY <2>1, CommitKinds DEF PacketShape
  <2>2. CASE Op(c) # "recharge"
    <3> SUFFICES ASSUME NEW p \in Packets
                 PROVE  /\ packet'[p].status = "none" <=> packet'[p].sender = NoUser
                        /\ packet'[p].status = "active" =>
                             packet'[p].amount > 0 /\ packet'[p].count > 0
      BY DEF PacketShape
    <3>1. CASE p = k
      BY <1>2, <2>2, <3>1, RedPacketAssumption
    <3>2. CASE p # k
      BY <1>1, <1>2, <2>2, <3>2 DEF PacketShape
    <3> QED BY <3>1, <3>2
  <2> QED BY <2>1, <2>2
<1>5. orders' \subseteq [user : Users, key : Requests, amount : Nat]
  <2>1. orders' = orders \/ /\ Op(c) = "recharge"
                            /\ orders' = orders \cup {[user |-> User(c), key |-> k, amount |-> n]}
    BY CommitKinds
  <2>2. Op(c) = "recharge" => [user |-> User(c), key |-> k, amount |-> n]
                                \in [user : Users, key : Requests, amount : Nat]
    BY <1>1, RequestType
  <2> QED BY <2>1, <2>2 DEF TypeOK
<1>6. claims' \subseteq [user : Users, key : Packets, amount : Nat]
  <2>1. claims' = claims \/ /\ Op(c) = "claim"
                            /\ claims' = claims \cup {[user |-> User(c), key |-> k, amount |-> n]}
    BY CommitKinds
  <2>2. Op(c) = "claim" => [user |-> User(c), key |-> k, amount |-> n]
                             \in [user : Users, key : Packets, amount : Nat]
    BY <1>1, RequestType
  <2> QED BY <2>1, <2>2 DEF TypeOK
<1>7. balance' \in [Users -> Nat]
  BY CommitFacts DEF TypeOK
<1>8. ledger' \subseteq Entries
  <2>1. [user |-> Payee(c), type |-> tx[c].does, key |-> k, amount |-> n] \in Entries
    BY CommitFacts, CommitKinds, RequestType DEF Entries
  <2> QED BY <2>1, CommitFacts DEF TypeOK
<1>9. tx' \in [Calls -> [does : Plans, amount : Nat, balance : Nat]]
  <2>1. NoTx(c) \in [does : Plans, amount : Nat, balance : Nat]
    BY RequestType DEF NoTx, Plans, Ops
  <2> QED BY <2>1, CommitFacts DEF TypeOK
<1>10. reply' \in [Calls -> Replies]
  <2>1. Final(c) \in Replies
    BY DEF Final, Replies
  <2>2. PICK r \in Replies : reply' = [reply EXCEPT ![c] = r]
    BY <2>1, CommitFacts DEF Replies
  <2> QED BY <2>2 DEF TypeOK
<1>11. /\ pc' \in [Calls -> Steps] /\ holds' \in [Calls -> SUBSET Rows]
       /\ past' \subseteq Packets /\ mishaps' \in 0..MaxMishaps
  BY CommitFacts DEF TypeOK, Steps
<1>12. RowsExclusive'
  <2>1. holds'[c] = {} /\ \A d \in Calls \ {c} : holds'[d] = holds[d]
    BY CommitFacts DEF TypeOK
  <2> QED BY <2>1 DEF RowsExclusive
<1> QED BY <1>3, <1>4, <1>5, <1>6, <1>7, <1>8, <1>9, <1>10, <1>11, <1>12 DEF TypeOK

(* The books still agree: each kind of transaction adds one entry and the  *)
(* one row that accounts for it.                                           *)
LEMMA CommitBooks ==
  ASSUME IInv, NEW c \in Calls, Commit(c)
  PROVE  BooksAgree'
<1> USE DEF IInv
<1> DEFINE k == Key(c)
           n == tx[c].amount
           Debits == {[user |-> packet[p].sender, type |-> "create", key |-> p,
                       amount |-> packet[p].total] : p \in Sent}
           Credits == {[user |-> packet[p].sender, type |-> "refund", key |-> p,
                        amount |-> packet[p].amount] : p \in Refunded}
           entry == [user |-> Payee(c), type |-> tx[c].does, key |-> k, amount |-> n]
<1>1. ledger' = ledger \cup {entry}
  BY CommitFacts
<1>2. ledger = Booking("recharge", orders) \cup Booking("claim", claims) \cup Debits \cup Credits
  BY DEF BooksAgree
<1>3. packet \in [Packets -> [status : {"none", "active", "finished", "expired"},
                     sender : Users \cup {NoUser}, total : Nat, parts : Nat,
                     amount : Nat, count : Nat]]
  BY DEF TypeOK
<1>4. CASE Op(c) = "recharge"
  <2>1. /\ entry = [user |-> User(c), type |-> "recharge", key |-> k, amount |-> n]
        /\ orders' = orders \cup {[user |-> User(c), key |-> k, amount |-> n]}
        /\ claims' = claims /\ packet' = packet
    BY <1>4, CommitKinds
  <2>2. Booking("recharge", orders)' = Booking("recharge", orders) \cup {entry}
    <3>1. Booking("recharge", orders)' = Booking("recharge", orders')
      BY DEF Booking
    <3> DEFINE r == [user |-> User(c), key |-> k, amount |-> n]
    <3>2. r.user = User(c) /\ r.key = k /\ r.amount = n /\ orders' = orders \cup {r}
      BY <2>1
    <3> HIDE DEF r
    <3>3. Booking("recharge", orders \cup {r})
            = Booking("recharge", orders)
                \cup {[user |-> r.user, type |-> "recharge", key |-> r.key, amount |-> r.amount]}
      BY DEF Booking
    <3> QED BY <2>1, <3>1, <3>2, <3>3
  <2>3. Booking("claim", claims)' = Booking("claim", claims) /\ Debits' = Debits /\ Credits' = Credits
    BY <2>1 DEF Booking, Sent, Refunded
  <2> HIDE DEF Debits, Credits, entry
  <2>4. ledger' = Booking("recharge", orders)' \cup Booking("claim", claims)' \cup Debits' \cup Credits'
    BY <1>1, <1>2, <2>2, <2>3
  <2> QED BY <2>4 DEF BooksAgree, Debits, Credits
<1>5. CASE Op(c) = "create"
  <2>1. /\ entry = [user |-> User(c), type |-> "create", key |-> k, amount |-> n]
        /\ orders' = orders /\ claims' = claims /\ k \in Packets
        /\ packet' = [packet EXCEPT ![k] =
             [status |-> "active", sender |-> User(c), total |-> n, parts |-> Count(c),
              amount |-> n, count |-> Count(c)]]
        /\ packet[k].status = "none"
    BY <1>5, CommitKinds, RequestType
  <2>2. /\ \A p \in Packets : p # k => packet'[p] = packet[p]
        /\ packet'[k].status = "active" /\ packet'[k].sender = User(c) /\ packet'[k].total = n
    BY <1>3, <2>1
  <2>3. Sent' = Sent \cup {k} /\ k \notin Sent /\ Refunded' = Refunded
    BY <2>1, <2>2 DEF Sent, Refunded
  <2>4. Debits' = Debits \cup {entry}
    BY <2>1, <2>2, <2>3 DEF Sent
  <2>5. Credits' = Credits
    BY <2>1, <2>2, <2>3 DEF Refunded
  <2>6. Booking("recharge", orders)' = Booking("recharge", orders)
        /\ Booking("claim", claims)' = Booking("claim", claims)
    BY <2>1 DEF Booking
  <2> HIDE DEF Debits, Credits, entry
  <2>7. ledger' = Booking("recharge", orders)' \cup Booking("claim", claims)' \cup Debits' \cup Credits'
    BY <1>1, <1>2, <2>4, <2>5, <2>6
  <2> QED BY <2>7 DEF BooksAgree, Debits, Credits
<1>6. CASE tx[c].does = "claim"
  <2>1. /\ entry = [user |-> User(c), type |-> "claim", key |-> k, amount |-> n]
        /\ claims' = claims \cup {[user |-> User(c), key |-> k, amount |-> n]}
        /\ orders' = orders /\ k \in Packets /\ packet[k].status = "active"
    BY <1>6, CommitKinds, RequestType
  <2>2. PICK s \in {"active", "finished"} :
          packet' = [packet EXCEPT ![k] = [packet[k] EXCEPT !.amount = @ - n,
                                           !.count = @ - 1, !.status = s]]
    BY <1>6, CommitKinds
  <2>3. /\ \A p \in Packets : /\ packet'[p].sender = packet[p].sender
                              /\ packet'[p].total = packet[p].total
                              /\ p # k => packet'[p] = packet[p]
        /\ packet'[k].status = s
    BY <1>3, <2>1, <2>2
  <2>4. Sent' = Sent /\ Refunded' = Refunded /\ k \notin Refunded
    BY <2>1, <2>3 DEF Sent, Refunded
  <2>5. Debits' = Debits
    BY <2>3, <2>4 DEF Sent
  <2>6. Credits' = Credits
    BY <2>3, <2>4 DEF Refunded
  <2>7. Booking("recharge", orders)' = Booking("recharge", orders)
        /\ Booking("claim", claims)' = Booking("claim", claims) \cup {entry}
    <3>1. Booking("recharge", orders)' = Booking("recharge", orders')
          /\ Booking("claim", claims)' = Booking("claim", claims')
      BY DEF Booking
    <3> DEFINE r == [user |-> User(c), key |-> k, amount |-> n]
    <3>2. r.user = User(c) /\ r.key = k /\ r.amount = n /\ claims' = claims \cup {r}
      BY <2>1
    <3> HIDE DEF r
    <3>3. Booking("claim", claims \cup {r})
            = Booking("claim", claims)
                \cup {[user |-> r.user, type |-> "claim", key |-> r.key, amount |-> r.amount]}
      BY DEF Booking
    <3> QED BY <2>1, <3>1, <3>2, <3>3
  <2> HIDE DEF Debits, Credits, entry
  <2>8. ledger' = Booking("recharge", orders)' \cup Booking("claim", claims)' \cup Debits' \cup Credits'
    BY <1>1, <1>2, <2>5, <2>6, <2>7
  <2> QED BY <2>8 DEF BooksAgree, Debits, Credits
<1>7. CASE tx[c].does = "refund"
  <2>1. /\ entry = [user |-> packet[k].sender, type |-> "refund", key |-> k,
                    amount |-> packet[k].amount]
        /\ claims' = claims /\ orders' = orders /\ k \in Packets /\ packet[k].status = "active"
        /\ packet' = [packet EXCEPT ![k] = [packet[k] EXCEPT !.status = "expired"]]
    BY <1>7, CommitKinds, RequestType
  <2>2. /\ \A p \in Packets : /\ packet'[p].sender = packet[p].sender
                              /\ packet'[p].total = packet[p].total
                              /\ packet'[p].amount = packet[p].amount
                              /\ p # k => packet'[p] = packet[p]
        /\ packet'[k].status = "expired"
    BY <1>3, <2>1
  <2>3. Sent' = Sent /\ Refunded' = Refunded \cup {k}
    BY <2>1, <2>2 DEF Sent, Refunded
  <2>4. Debits' = Debits
    BY <2>2, <2>3 DEF Sent
  <2>5. Credits' = Credits \cup {entry}
    BY <2>1, <2>2, <2>3 DEF Refunded
  <2>6. Booking("recharge", orders)' = Booking("recharge", orders)
        /\ Booking("claim", claims)' = Booking("claim", claims)
    BY <2>1 DEF Booking
  <2> HIDE DEF Debits, Credits, entry
  <2>7. ledger' = Booking("recharge", orders)' \cup Booking("claim", claims)' \cup Debits' \cup Credits'
    BY <1>1, <1>2, <2>4, <2>5, <2>6
  <2> QED BY <2>7 DEF BooksAgree, Debits, Credits
<1> QED BY <1>4, <1>5, <1>6, <1>7, CommitKinds


(* A commit touches no packet that another call relies on: it creates a    *)
(* fresh one or changes the active one that it has locked.                 *)
LEMMA CommitPackets ==
  ASSUME IInv, NEW c \in Calls, Commit(c), NEW p \in Packets
  PROVE  /\ Op(c) = "recharge" \/ p # Key(c) => packet'[p] = packet[p]
         /\ packet[p].status # "none" => packet'[p].sender = packet[p].sender
         /\ packet[p].status \in {"finished", "expired"} => packet'[p] = packet[p]
<1> USE DEF IInv
<1>1. packet \in [Packets -> [status : {"none", "active", "finished", "expired"},
                     sender : Users \cup {NoUser}, total : Nat, parts : Nat,
                     amount : Nat, count : Nat]]
  BY DEF TypeOK
<1>2. Op(c) # "recharge" => Key(c) \in Packets
  BY RequestType
<1>3. CASE Op(c) = "recharge"
  BY <1>3, CommitKinds
<1>4. CASE Op(c) = "create"
  BY <1>1, <1>2, <1>4, CommitKinds
<1>5. CASE tx[c].does = "claim"
  <2>1. PICK s \in {"active", "finished"} :
          packet' = [packet EXCEPT ![Key(c)] = [packet[Key(c)] EXCEPT
                       !.amount = @ - tx[c].amount, !.count = @ - 1, !.status = s]]
    BY <1>5, CommitKinds
  <2>2. packet[Key(c)].status = "active" /\ Key(c) \in Packets
    BY <1>2, <1>5, CommitKinds
  <2>3. p # Key(c) => packet'[p] = packet[p]
    BY <1>1, <2>1
  <2>4. packet'[Key(c)] = [packet[Key(c)] EXCEPT !.amount = @ - tx[c].amount,
                                                 !.count = @ - 1, !.status = s]
    BY <1>1, <2>1, <2>2
  <2>5. packet'[Key(c)].sender = packet[Key(c)].sender
    BY <1>1, <2>2, <2>4
  <2> QED BY <1>5, <2>2, <2>3, <2>5, CommitKinds
<1>6. CASE tx[c].does = "refund"
  BY <1>1, <1>2, <1>6, CommitKinds
<1> QED BY <1>3, <1>4, <1>5, <1>6, CommitKinds

LEMMA CommitOthers ==
  ASSUME IInv, NEW c \in Calls, Commit(c), NEW d \in Calls \ {c}
  PROVE  CallOK(d)'
<1> USE DEF IInv
<1>1. /\ pc'[d] = pc[d] /\ tx'[d] = tx[d] /\ holds'[d] = holds[d] /\ reply'[d] = reply[d]
      /\ CallOK(d)
  BY CommitFacts DEF TypeOK
<1>2. holds[c] \cap holds[d] = {}
  BY DEF RowsExclusive
<1>3. PathOK(d)'
  BY <1>1 DEF CallOK, PathOK
<1>4. RechargeOK(d)'
  <2> SUFFICES ASSUME Op(d) = "recharge", pc[d] \in {"wallet", "commit"}
               PROVE  ~Ordered(User(d), Key(d))'
    BY <1>1 DEF CallOK, RechargeOK
  <2>1. OrderKey(User(d), Key(d)) \in holds[d] /\ ~Ordered(User(d), Key(d))
    BY <1>1 DEF CallOK, RechargeOK
  <2>2. CASE Op(c) = "recharge"
    <3>1. /\ orders' = orders \cup {[user |-> User(c), key |-> Key(c), amount |-> tx[c].amount]}
          /\ OrderKey(User(c), Key(c)) \in holds[c]
      BY <2>2, CommitKinds
    <3>2. User(c) # User(d) \/ Key(c) # Key(d)
      BY <1>2, <2>1, <3>1
    <3> QED BY <2>1, <3>1, <3>2 DEF Ordered
  <2>3. CASE Op(c) # "recharge"
    BY <2>1, <2>3, CommitKinds DEF Ordered
  <2> QED BY <2>2, <2>3
<1>5. Op(d) = "create" /\ packet[Key(d)].status = "none" => packet'[Key(d)] = packet[Key(d)]
  <2> SUFFICES ASSUME Op(d) = "create", packet[Key(d)].status = "none"
               PROVE  packet'[Key(d)] = packet[Key(d)]
    OBVIOUS
  <2>1. Key(d) \in Packets /\ (Op(c) = "create" => Key(c) # Key(d))
    BY RequestType, RedPacketAssumption
  <2>2. Op(c) \in {"claim", "refund"} => packet[Key(c)].status = "active"
    BY CommitKinds
  <2> QED BY <2>1, <2>2, CommitPackets, RequestType DEF Ops
<1>6. CreateOK(d)'
  BY <1>1, <1>5 DEF CallOK, CreateOK
<1>7. ASSUME Op(d) \in {"claim", "refund"}, pc[d] \in {"insert", "wallet", "commit"}
      PROVE  /\ packet'[Key(d)] = packet[Key(d)]
             /\ ~Claimed(Key(d), User(d)) => ~Claimed(Key(d), User(d))'
             /\ packet[Key(d)].status = "active"
  <2>1. /\ PacketRow(Key(d)) \in holds[d] /\ packet[Key(d)].status = "active"
        /\ Key(d) \in Packets
    BY <1>1, <1>7, RequestType DEF CallOK, PacketOK
  <2>2. Op(c) # "recharge" => Key(c) # Key(d)
    BY <1>2, <2>1, CommitKinds
  <2>3. Op(c) = "claim" => Key(c) # Key(d)
    BY <2>2
  <2>4. \/ claims' = claims
        \/ /\ Op(c) = "claim"
           /\ claims' = claims \cup
                {[user |-> User(c), key |-> Key(c), amount |-> tx[c].amount]}
    BY CommitKinds
  <2>5. ~Claimed(Key(d), User(d)) => ~Claimed(Key(d), User(d))'
    BY <2>3, <2>4 DEF Claimed
  <2> QED BY <2>1, <2>2, <2>5, CommitPackets
<1>8. PacketOK(d)'
  BY <1>1, <1>7 DEF CallOK, PacketOK
<1>9. WalletOK(d)'
  <2> SUFFICES ASSUME pc[d] = "commit" PROVE WalletOK(d)'
    BY <1>1 DEF WalletOK
  <2>1. WalletRow(Payee(d)) \in holds[d] /\ WalletRow(Payee(c)) \in holds[c]
    BY <1>1, CommitFacts DEF CallOK, WalletOK
  <2>2. Payee(d) # Payee(c) /\ Payee(d) \in Users
    BY <1>2, <2>1, PlanFacts
  <2>3. tx[d].does = "refund" => packet'[Key(d)] = packet[Key(d)]
    BY <1>7, PlanFacts, RequestType DEF Ops
  <2>4. Payee(d)' = Payee(d)
    BY <1>1, <2>3 DEF Payee
  <2>5. balance'[Payee(d)] = balance[Payee(d)]
    BY <2>2, CommitFacts DEF TypeOK
  <2> QED BY <1>1, <2>4, <2>5 DEF CallOK, WalletOK
<1>10. ReplyIsTrue(d)'
  <2>1. Booked(User(d), Op(d), Key(d)) => Booked(User(d), Op(d), Key(d))'
    BY CommitFacts DEF Booked
  <2>2. Op(d) \in {"claim", "refund"} /\ reply[d] \in {"finished", "expired"}
          => packet'[Key(d)].status = reply[d]
    BY <1>1, CommitPackets, RequestType DEF CallOK, ReplyIsTrue
  <2> QED BY <1>1, <1>5, <2>1, <2>2 DEF CallOK, ReplyIsTrue
<1> QED BY <1>3, <1>4, <1>6, <1>8, <1>9, <1>10 DEF CallOK

LEMMA CommitSelf ==
  ASSUME IInv, NEW c \in Calls, Commit(c)
  PROVE  CallOK(c)'
<1> USE DEF IInv
<1>1. /\ pc'[c] = "returned" /\ tx'[c].does = Op(c)
      /\ reply'[c] \in {Final(c), "failed"}
  BY CommitFacts DEF TypeOK, NoTx
<1>2. \E e \in ledger' : e.user = Payee(c) /\ e.type = tx[c].does /\ e.key = Key(c)
  <2> DEFINE e == [user |-> Payee(c), type |-> tx[c].does, key |-> Key(c),
                   amount |-> tx[c].amount]
  <2>1. e \in ledger' /\ e.user = Payee(c) /\ e.type = tx[c].does /\ e.key = Key(c)
    BY CommitFacts
  <2> QED BY <2>1
<1>3. ASSUME reply'[c] \in {"ok", "already"}
      PROVE  Booked(User(c), Op(c), Key(c))'
  <2>1. Payee(c) = User(c) /\ tx[c].does = Op(c)
    BY <1>1, <1>3, CommitKinds DEF Final
  <2> QED BY <1>2, <2>1 DEF Booked
<1>4. ASSUME reply'[c] \in {"finished", "expired"}
      PROVE  packet'[Key(c)].status = reply'[c]
  <2>1. Op(c) = "claim" /\ tx[c].does = "refund" /\ reply'[c] = "expired"
    BY <1>1, <1>4, CommitKinds DEF Final
  <2>2. /\ Key(c) \in Packets
        /\ packet' = [packet EXCEPT ![Key(c)] = [packet[Key(c)] EXCEPT !.status = "expired"]]
    BY <2>1, CommitKinds, RequestType
  <2>3. packet'[Key(c)] = [packet[Key(c)] EXCEPT !.status = "expired"]
    BY <2>2 DEF TypeOK
  <2> QED BY <2>1, <2>3 DEF TypeOK
<1>5. Op(c) = "create" => reply'[c] \in {"ok", "failed"}
  BY <1>1 DEF Final
<1>6. ReplyIsTrue(c)'
  BY <1>3, <1>4, <1>5 DEF ReplyIsTrue
<1> QED BY <1>1, <1>6 DEF CallOK, PathOK, RechargeOK, CreateOK, PacketOK, WalletOK

LEMMA FailInv ==
  ASSUME IInv, NEW c \in Calls, Forbid(c) \/ Fail(c), Mishap
  PROVE  IInv'
<1>1. /\ pc[c] # "returned" /\ UNCHANGED tables /\ past' = past
      /\ mishaps' \in 0..MaxMishaps
      /\ Answer(c, "forbidden") \/ Answer(c, "failed")
  BY RedPacketAssumption DEF Forbid, Fail, At, Mishap, IInv, TypeOK
<1> QED BY <1>1, AnswerStep DEF Replies, IInv, TypeOK

LEMMA ExpireInv ==
  ASSUME IInv, NEW p \in Packets, Expire(p)
  PROVE  IInv'
<1> USE DEF IInv
<1>1. UNCHANGED <<tables, pc, tx, holds, reply, mishaps>> /\ past' \subseteq Packets
  BY DEF Expire, TypeOK
<1>2. TypeOK'
  BY <1>1 DEF TypeOK, tables
<1>3. RowsExclusive' /\ PacketShape' /\ BooksAgree'
  BY <1>1 DEF RowsExclusive, PacketShape, BooksAgree, Sent, Refunded, Booking, tables
<1>4. ASSUME NEW c \in Calls PROVE CallOK(c)'
  <2>1. CallOK(c)
    OBVIOUS
  <2> QED BY <1>1, <2>1 DEF CallOK, PathOK, RechargeOK, CreateOK, PacketOK, WalletOK,
             ReplyIsTrue, Ordered, Claimed, Booked, Payee, tables
<1> QED BY <1>2, <1>3, <1>4

LEMMA StutterInv ==
  ASSUME IInv, UNCHANGED vars
  PROVE  IInv'
  BY DEF vars, tables, IInv, TypeOK, RowsExclusive, PacketShape, BooksAgree, Sent, Refunded,
         Booking, CallOK, PathOK, RechargeOK, CreateOK, PacketOK, WalletOK, ReplyIsTrue,
         Ordered, Claimed, Booked, Payee

LEMMA InitInv == Init => IInv
<1> SUFFICES ASSUME Init PROVE IInv
  OBVIOUS
<1>1. TypeOK
  <2>1. \A c \in Calls : NoTx(c) \in [does : Plans, amount : Nat, balance : Nat]
    BY RequestType DEF NoTx, Plans, Ops
  <2>2. NoPacket \in [status : {"none", "active", "finished", "expired"},
                      sender : Users \cup {NoUser}, total : Nat, parts : Nat,
                      amount : Nat, count : Nat]
    BY DEF NoPacket
  <2> QED BY <2>1, <2>2, RedPacketAssumption DEF Init, TypeOK, Steps, Replies
<1>2. RowsExclusive
  BY DEF Init, RowsExclusive
<1>3. PacketShape
  BY DEF Init, PacketShape, NoPacket
<1>4. BooksAgree
  BY DEF Init, BooksAgree, Sent, Refunded, Booking, NoPacket
<1>5. ASSUME NEW c \in Calls PROVE CallOK(c)
  BY RequestType DEF Init, CallOK, PathOK, RechargeOK, CreateOK, PacketOK, WalletOK,
     ReplyIsTrue, NoTx, NoPacket, Ops
<1> QED BY <1>1, <1>2, <1>3, <1>4, <1>5 DEF IInv

LEMMA StepInv == IInv /\ [Next]_vars => IInv'
<1> SUFFICES ASSUME IInv, [Next]_vars PROVE IInv'
  OBVIOUS
<1>1. ASSUME NEW c \in Calls, Step(c) PROVE IInv'
  <2>1. CASE StartRecharge(c)
    BY <2>1, StartRechargeInv
  <2>2. CASE InsertOrder(c)
    BY <2>2, InsertOrderInv
  <2>3. CASE StartCreate(c)
    BY <2>3, StartCreateInv
  <2>4. CASE StartClaim(c) \/ Precheck(c)
    BY <2>4, StartClaimInv
  <2>5. CASE LockPacket(c)
    BY <2>5, LockPacketInv
  <2>6. CASE InsertClaim(c)
    BY <2>6, InsertClaimInv
  <2>7. CASE LockWallet(c)
    BY <2>7, LockWalletInv
  <2>8. CASE Commit(c)
    BY <2>8, CommitShape, CommitBooks, CommitSelf, CommitOthers DEF IInv
  <2> QED BY <1>1, <2>1, <2>2, <2>3, <2>4, <2>5, <2>6, <2>7, <2>8 DEF Step
<1>2. ASSUME NEW c \in Calls, Forbid(c) \/ Fail(c), Mishap PROVE IInv'
  BY <1>2, FailInv
<1>3. ASSUME NEW p \in Packets, Expire(p) PROVE IInv'
  BY <1>3, ExpireInv
<1> QED BY <1>1, <1>2, <1>3, StutterInv DEF Next

(* Whatever a transaction read under its locks stays true until it ends.   *)
THEOREM Invariant == Spec => []IInv
  BY InitInv, StepInv, PTL DEF Spec


(* No wallet ever goes negative and every row keeps the shape of its table. *)
THEOREM TypeCorrect == Spec => []TypeOK
  BY Invariant, PTL DEF IInv

(* The wallet ledger never disagrees with the orders, claims and packets,  *)
(* whichever calls race, fail or lose their answers.                       *)
THEOREM BooksAlwaysAgree == Spec => []BooksAgree
  BY Invariant, PTL DEF IInv

(* No answer is ever contradicted by the committed tables.                 *)
THEOREM RepliesAlwaysTrue == Spec => []RepliesAreTrue
<1>1. IInv => RepliesAreTrue
  BY DEF IInv, CallOK, RepliesAreTrue
<1> QED BY <1>1, Invariant, PTL

-----------------------------------------------------------------------------
(* The tables implement the escrow: only a commit moves money, and each of *)
(* its four kinds is one step of the escrow.                               *)
pots == [p \in Packets |-> IF packet[p].status = "active" THEN packet[p].amount ELSE 0]
owners == [p \in Packets |-> packet[p].sender]

LEMMA QuietEscrow ==
  ASSUME UNCHANGED tables
  PROVE  UNCHANGED MoneyIsKept!vars
  BY DEF tables, MoneyIsKept!vars

LEMMA CommitEscrow ==
  ASSUME IInv, NEW c \in Calls, Commit(c)
  PROVE  MoneyIsKept!Next
<1> USE DEF IInv
<1> DEFINE k == Key(c)
           n == tx[c].amount
           u == Payee(c)
<1>1. /\ CallOK(c) /\ pc[c] = "commit" /\ n \in Nat /\ n > 0 /\ u \in Users
      /\ balance' = [balance EXCEPT ![u] = tx[c].balance]
      /\ balance \in [Users -> Nat]
  BY CommitFacts DEF TypeOK
<1>2. packet \in [Packets -> [status : {"none", "active", "finished", "expired"},
                     sender : Users \cup {NoUser}, total : Nat, parts : Nat,
                     amount : Nat, count : Nat]]
  BY DEF TypeOK
<1>3. tx[c].does # "create" => balance' = [balance EXCEPT ![u] = @ + n]
  BY <1>1 DEF CallOK, WalletOK
<1>4. CASE Op(c) = "recharge"
  <2>1. /\ u = User(c) /\ packet' = packet /\ claims' = claims /\ k \in Requests
        /\ orders' = orders \cup {[user |-> u, key |-> k, amount |-> n]}
        /\ tx[c].does = "recharge"
    BY <1>4, CommitKinds, RequestType
  <2>2. ~Ordered(u, k) /\ n = Amount(c)
    BY <1>1, <1>4, <2>1 DEF CallOK, RechargeOK
  <2>3. <<u, k>> \notin {<<o.user, o.key>> : o \in orders}
    BY <2>2 DEF Ordered
  <2>4. {<<o.user, o.key>> : o \in orders'} = {<<o.user, o.key>> : o \in orders} \cup {<<u, k>>}
    <3> DEFINE r == [user |-> u, key |-> k, amount |-> n]
    <3>1. r.user = u /\ r.key = k /\ orders' = orders \cup {r}
      BY <2>1
    <3> HIDE DEF r
    <3> QED BY <3>1
  <2>5. \E m \in {Amount(d) : d \in Calls} \ {0} : balance' = [balance EXCEPT ![u] = @ + m]
    <3>1. n \in {Amount(d) : d \in Calls} \ {0}
      BY <1>1, <2>2
    <3>2. balance' = [balance EXCEPT ![u] = @ + n]
      BY <1>3, <2>1
    <3> QED BY <3>1, <3>2
  <2>6. MoneyIsKept!Deposit(u, k)
    BY <2>1, <2>3, <2>4, <2>5 DEF MoneyIsKept!Deposit
  <2> QED BY <1>1, <2>1, <2>6 DEF MoneyIsKept!Next
<1>5. CASE Op(c) = "create"
  <2>1. /\ u = User(c) /\ orders' = orders /\ claims' = claims /\ k \in Packets
        /\ tx[c].does = "create" /\ packet[k].status = "none"
        /\ packet' = [packet EXCEPT ![k] =
             [status |-> "active", sender |-> u, total |-> n, parts |-> Count(c),
              amount |-> n, count |-> Count(c)]]
    BY <1>5, CommitKinds, RequestType
  <2>2. n = Amount(c) /\ n <= balance[u] /\ balance' = [balance EXCEPT ![u] = @ - n]
    BY <1>1, <1>5, <2>1 DEF CallOK, CreateOK, WalletOK
  <2>3. pots' = [pots EXCEPT ![k] = n]
    BY <1>2, <2>1 DEF pots
  <2>4. owners' = [owners EXCEPT ![k] = u] /\ owners[k] = NoUser
    BY <1>2, <2>1 DEF owners, PacketShape
  <2>5. n \in {Amount(d) : d \in Calls} \ {0}
    BY <1>1, <2>2
  <2>6. MoneyIsKept!Fund(u, k)
    BY <2>1, <2>2, <2>3, <2>4, <2>5 DEF MoneyIsKept!Fund, pots, owners
  <2> QED BY <1>1, <2>1, <2>6 DEF MoneyIsKept!Next
<1>6. CASE tx[c].does = "claim"
  <2>1. /\ u = User(c) /\ orders' = orders /\ k \in Packets
        /\ packet[k].status = "active" /\ n \in 1..packet[k].amount
        /\ ~Claimed(k, u)
        /\ claims' = claims \cup {[user |-> u, key |-> k, amount |-> n]}
    BY <1>6, CommitKinds, RequestType
  <2>2. PICK s \in {"active", "finished"} :
          /\ packet' = [packet EXCEPT ![k] = [packet[k] EXCEPT !.amount = @ - n,
                                              !.count = @ - 1, !.status = s]]
          /\ s = "finished" => packet[k].amount = n
    BY <1>6, CommitKinds
  <2>3. /\ \A p \in Packets : p # k => packet'[p] = packet[p]
        /\ packet'[k].status = s /\ packet'[k].amount = packet[k].amount - n
        /\ packet'[k].sender = packet[k].sender
    <3>1. \A p \in Packets : p # k => packet'[p] = packet[p]
      BY <1>2, <2>2
    <3>2. packet'[k] = [packet[k] EXCEPT !.amount = @ - n, !.count = @ - 1, !.status = s]
      BY <1>2, <2>1, <2>2
    <3> QED BY <1>2, <2>1, <3>1, <3>2
  <2>4. pots' = [pots EXCEPT ![k] = @ - n] /\ pots[k] = packet[k].amount
    <3>1. packet[k].amount \in Nat /\ pots[k] = packet[k].amount
      BY <1>2, <2>1 DEF pots
    <3>2. pots'[k] = packet[k].amount - n
      <4>1. CASE s = "active"
        BY <2>1, <2>3, <4>1 DEF pots
      <4>2. CASE s = "finished"
        BY <2>1, <2>2, <2>3, <3>1, <4>2 DEF pots
      <4> QED BY <4>1, <4>2
    <3>3. \A p \in Packets : p # k => pots'[p] = pots[p]
      BY <2>3 DEF pots
    <3>4. DOMAIN pots' = Packets /\ DOMAIN pots = Packets
      BY DEF pots
    <3>5. pots' = [p \in Packets |-> pots'[p]] /\ pots = [p \in Packets |-> pots[p]]
      BY DEF pots
    <3> QED BY <2>1, <3>1, <3>2, <3>3, <3>4, <3>5
  <2>5. owners' = owners
    BY <1>2, <2>3 DEF owners
  <2>6. <<k, u>> \notin {<<r.key, r.user>> : r \in claims}
    BY <2>1 DEF Claimed
  <2>7. {<<r.key, r.user>> : r \in claims'} = {<<r.key, r.user>> : r \in claims} \cup {<<k, u>>}
    <3> DEFINE r == [user |-> u, key |-> k, amount |-> n]
    <3>1. r.user = u /\ r.key = k /\ claims' = claims \cup {r}
      BY <2>1
    <3> HIDE DEF r
    <3> QED BY <3>1
  <2>8. balance' = [balance EXCEPT ![u] = @ + n] /\ n \in 1..pots[k]
    BY <1>3, <1>6, <2>1, <2>4
  <2>9. MoneyIsKept!Pay(k, User(c))
    <3>1. \E m \in 1..pots[k] : /\ balance' = [balance EXCEPT ![u] = @ + m]
                                /\ pots' = [pots EXCEPT ![k] = @ - m]
      BY <2>4, <2>8
    <3>2. UNCHANGED owners /\ UNCHANGED {<<o.user, o.key>> : o \in orders}
      BY <2>1, <2>5
    <3> QED BY <2>1, <2>6, <2>7, <3>1, <3>2 DEF MoneyIsKept!Pay, pots, owners
  <2>10. k \in Packets /\ User(c) \in Users
    BY <1>1, <2>1
  <2> QED BY <2>9, <2>10 DEF MoneyIsKept!Next
<1>7. CASE tx[c].does = "refund"
  <2>1. /\ u = packet[k].sender /\ orders' = orders /\ claims' = claims /\ k \in Packets
        /\ packet[k].status = "active" /\ n = packet[k].amount
        /\ packet' = [packet EXCEPT ![k] = [packet[k] EXCEPT !.status = "expired"]]
    BY <1>7, CommitKinds, RequestType
  <2>2. /\ \A p \in Packets : p # k => packet'[p] = packet[p]
        /\ packet'[k].status = "expired" /\ packet'[k].sender = packet[k].sender
    BY <1>2, <2>1
  <2>3. pots' = [pots EXCEPT ![k] = 0] /\ pots[k] = n
    BY <1>2, <2>1, <2>2 DEF pots
  <2>4. owners' = owners /\ owners[k] = u
    BY <1>2, <2>1, <2>2 DEF owners
  <2>5. balance' = [balance EXCEPT ![u] = @ + n]
    BY <1>3, <1>7
  <2>6. MoneyIsKept!Return(k)
    BY <1>1, <2>1, <2>3, <2>4, <2>5 DEF MoneyIsKept!Return, pots, owners
  <2> QED BY <2>1, <2>6 DEF MoneyIsKept!Next
<1> QED BY <1>4, <1>5, <1>6, <1>7, CommitKinds

(* Wallets, orders, packets and claims implement the escrow of Escrow.tla: *)
(* no interleaving of calls creates, loses or pays money twice.            *)
THEOREM EscrowImplemented == Spec => ImplementsEscrow
<1>1. Init => MoneyIsKept!Init
  BY DEF Init, MoneyIsKept!Init, NoPacket
<1>2. IInv /\ [Next]_vars => [MoneyIsKept!Next]_(MoneyIsKept!vars)
  <2> SUFFICES ASSUME IInv, [Next]_vars
               PROVE  [MoneyIsKept!Next]_(MoneyIsKept!vars)
    OBVIOUS
  <2>1. ASSUME NEW c \in Calls, Commit(c) PROVE MoneyIsKept!Next
    BY <2>1, CommitEscrow
  <2>2. CASE UNCHANGED tables
    BY <2>2, QuietEscrow
  <2>3. ASSUME NEW c \in Calls, Step(c) PROVE Commit(c) \/ UNCHANGED tables
    BY <2>3 DEF Step, StartRecharge, InsertOrder, StartCreate, StartClaim, Precheck,
       LockPacket, InsertClaim, LockWallet
  <2>4. ASSUME NEW c \in Calls, Forbid(c) \/ Fail(c) PROVE UNCHANGED tables
    BY <2>4 DEF Forbid, Fail
  <2>5. ASSUME NEW p \in Packets, Expire(p) PROVE UNCHANGED tables
    BY <2>5 DEF Expire
  <2>6. CASE UNCHANGED vars
    BY <2>2, <2>6 DEF vars
  <2> QED BY <2>1, <2>2, <2>3, <2>4, <2>5, <2>6 DEF Next
<1> QED BY <1>1, <1>2, Invariant, PTL DEF Spec, ImplementsEscrow, MoneyIsKept!Spec


-----------------------------------------------------------------------------
(* The shares of a packet.  What is left of it is, at any time, what even  *)
(* shares of the rest come to: of the fen that do not divide, one each is  *)
(* in the first shares.                                                    *)
Base(p) == p.total \div p.parts
Extra(p) == p.total % p.parts

EvenSplit(p) ==
  /\ p.parts > 0 /\ p.parts <= p.total /\ p.count <= p.parts
  /\ p.amount = p.count * Base(p)
       + (IF p.parts - p.count < Extra(p) THEN Extra(p) - (p.parts - p.count) ELSE 0)

(* How many of the shares that were paid are the larger ones.              *)
Larger(p) == IF p.parts - p.count < Extra(p) THEN p.parts - p.count ELSE Extra(p)

(* What SharesAreEqual says, and what the claims leave: the larger shares  *)
(* are paid first, as long as there are fen that do not divide.            *)
FairShares ==
  \A q \in Sent :
    /\ EvenSplit(packet[q])
    /\ Cardinality(LargerOf(q)) = Larger(packet[q])
    /\ Cardinality(TakenOf(q)) + packet[q].count = packet[q].parts
    /\ \A k \in TakenOf(q) : k.amount \in {Base(packet[q]), Base(packet[q]) + 1}
    /\ packet[q].status = "finished" <=> packet[q].count = 0

\* The share that a claim has planned is still the one of the locked packet.
PlanIsFair(c) ==
  /\ Op(c) = "create" /\ pc[c] \in {"wallet", "commit"} => Count(c) <= Amount(c)
  /\ Op(c) = "claim" /\ tx[c].does = "claim" /\ pc[c] \in {"insert", "wallet", "commit"}
       => tx[c].amount = Share(packet[Key(c)])

ShareInv ==
  /\ IsFiniteSet(claims)
  /\ \A k \in claims : packet[k.key].status # "none"
  /\ FairShares
  /\ \A c \in Calls : PlanIsFair(c)
  /\ NeverBroken

-----------------------------------------------------------------------------
LEMMA DivMod ==
  ASSUME NEW a \in Nat, NEW b \in Nat, b > 0
  PROVE  /\ a \div b \in Nat /\ a % b \in Nat /\ a % b < b
         /\ a = b * (a \div b) + (a % b)
OBVIOUS

PacketType == [status : {"none", "active", "finished", "expired"},
               sender : Users \cup {NoUser}, total : Nat, parts : Nat,
               amount : Nat, count : Nat]

(* The share of an evenly split packet is the fen of an even split, or one *)
(* more; the packet can pay it, and has some left unless it is the last.   *)
LEMMA ShareIsEven ==
  ASSUME NEW p \in PacketType, EvenSplit(p), p.count > 0
  PROVE  /\ Share(p) \in {Base(p), Base(p) + 1} /\ Share(p) \in Nat
         /\ Share(p) \in 1..p.amount
         /\ p.count > 1 => Share(p) < p.amount
         /\ Share(p) = Base(p) + (IF p.parts - p.count < Extra(p) THEN 1 ELSE 0)
         /\ p.amount - Share(p) = (p.count - 1) * Base(p)
              + (IF p.parts - (p.count - 1) < Extra(p)
                   THEN Extra(p) - (p.parts - (p.count - 1)) ELSE 0)
<1> DEFINE b == Base(p)
           x == Extra(p)
           n == p.count
           given == p.parts - n
<1>1. /\ p.total \in Nat /\ p.parts \in Nat /\ n \in Nat /\ p.amount \in Nat
      /\ p.parts > 0 /\ p.parts <= p.total /\ n <= p.parts /\ n > 0 /\ given \in Nat
      /\ p.amount = n * b + (IF given < x THEN x - given ELSE 0)
  BY DEF PacketType, EvenSplit
<1>2. /\ b \in Nat /\ x \in Nat /\ x < p.parts
      /\ p.total = p.parts * b + x
  BY <1>1, DivMod DEF Base, Extra
<1>3. b >= 1
  BY <1>1, <1>2
<1>4. Share(p) = b + (IF given < x THEN 1 ELSE 0)
  <2>1. CASE n = 1
    <3>1. Share(p) = p.amount
      BY <2>1 DEF Share
    <3>2. ~(given < x)
      BY <1>1, <1>2, <2>1
    <3> HIDE DEF b, x
    <3>3. QED
      BY <1>1, <1>2, <2>1, <3>1, <3>2
  <2>2. CASE n # 1
    BY <2>2 DEF Share, Base, Extra
  <2>3. QED
    BY <2>1, <2>2
<1> HIDE DEF b, x
<1>5. n * b = (n - 1) * b + b /\ (n - 1) * b \in Nat
  BY <1>1, <1>2
<1>6. n > 1 => (n - 1) * b >= 1
  BY <1>1, <1>2, <1>3
<1>7. (n - 1) * b \in Nat /\ n * b \in Nat
  BY <1>1, <1>2
<1>8. p.amount - Share(p) = (n - 1) * b
        + (IF p.parts - (n - 1) < x THEN x - (p.parts - (n - 1)) ELSE 0)
  BY <1>1, <1>2, <1>4, <1>5, <1>7
<1>9. p.amount - Share(p) >= (n - 1) * b
  BY <1>1, <1>2, <1>7, <1>8
<1>10. Share(p) \in {b, b + 1} /\ Share(p) \in Nat
  BY <1>2, <1>4
<1>11. Share(p) \in 1..p.amount
  BY <1>1, <1>2, <1>3, <1>4, <1>7, <1>9, <1>10
<1>12. n > 1 => Share(p) < p.amount
  BY <1>1, <1>6, <1>7, <1>9, <1>10
<1>13. QED
  BY <1>4, <1>8, <1>10, <1>11, <1>12 DEF b, x

(* A step that writes no table keeps the shares fair, if it leaves c's own *)
(* plan fair and does not answer that something is broken.                 *)
LEMMA QuietShares ==
  ASSUME ShareInv, NEW c \in Calls, UNCHANGED tables,
         \A d \in Calls \ {c} : pc'[d] = pc[d] /\ tx'[d] = tx[d] /\ reply'[d] = reply[d],
         PlanIsFair(c)', reply'[c] # "broken"
  PROVE  ShareInv'
<1>1. UNCHANGED <<packet, claims>>
  BY DEF tables
<1>2. IsFiniteSet(claims)' /\ (\A k \in claims : packet[k.key].status # "none")'
  BY <1>1 DEF ShareInv
<1>3. FairShares'
  BY <1>1 DEF ShareInv, FairShares, Sent, TakenOf, LargerOf, EvenShare
<1>4. \A d \in Calls : PlanIsFair(d)'
  <2>1. ASSUME NEW d \in Calls \ {c} PROVE PlanIsFair(d)'
    BY <1>1, <2>1 DEF ShareInv, PlanIsFair
  <2>2. QED
    BY <2>1
<1>5. NeverBroken'
  BY DEF ShareInv, NeverBroken
<1>6. QED
  BY <1>2, <1>3, <1>4, <1>5 DEF ShareInv

LEMMA AnswerShares ==
  ASSUME IInv, ShareInv, NEW c \in Calls, NEW r, r # "broken", Answer(c, r), UNCHANGED tables
  PROVE  ShareInv'
<1>1. /\ pc'[c] = "returned" /\ reply'[c] = r
      /\ \A d \in Calls \ {c} : pc'[d] = pc[d] /\ tx'[d] = tx[d] /\ reply'[d] = reply[d]
  BY DEF Answer, Goto, IInv, TypeOK
<1>2. PlanIsFair(c)'
  BY <1>1 DEF PlanIsFair
<1>3. QED
  BY <1>1, <1>2, QuietShares

LEMMA GotoShares ==
  ASSUME IInv, ShareInv, NEW c \in Calls, NEW s, Goto(c, s), UNCHANGED <<tables, reply>>,
         \A d \in Calls \ {c} : tx'[d] = tx[d], PlanIsFair(c)'
  PROVE  ShareInv'
<1>1. /\ reply'[c] # "broken"
      /\ \A d \in Calls \ {c} : pc'[d] = pc[d] /\ tx'[d] = tx[d] /\ reply'[d] = reply[d]
  BY DEF Goto, IInv, TypeOK, ShareInv, NeverBroken
<1>2. QED
  BY <1>1, QuietShares

(* The steps before the transaction, and those of a recharge.              *)
LEMMA StartShares ==
  ASSUME IInv, ShareInv, NEW c \in Calls,
         StartRecharge(c) \/ InsertOrder(c) \/ StartCreate(c) \/ StartClaim(c) \/ Precheck(c)
  PROVE  ShareInv'
<1>1. UNCHANGED tables
  BY DEF StartRecharge, InsertOrder, StartCreate, StartClaim, Precheck
<1>2. CASE \E r \in {"invalid", "already", "notfound"} : Answer(c, r)
  BY <1>1, <1>2, AnswerShares
<1>3. CASE /\ Op(c) # "create" /\ UNCHANGED reply
           /\ \E s \in {"insert", "start", "wallet", "precheck", "packet"} :
                /\ Goto(c, s)
                /\ Op(c) = "claim" => s \in {"precheck", "packet"}
           /\ \A d \in Calls \ {c} : tx'[d] = tx[d]
  <2>1. PICK s \in {"insert", "start", "wallet", "precheck", "packet"} :
          Goto(c, s) /\ (Op(c) = "claim" => s \in {"precheck", "packet"})
    BY <1>3
  <2>2. pc'[c] = s
    BY <2>1 DEF Goto, IInv, TypeOK
  <2>3. PlanIsFair(c)'
    BY <1>3, <2>1, <2>2 DEF PlanIsFair
  <2>4. QED
    BY <1>1, <1>3, <2>1, <2>3, GotoShares
<1>4. CASE /\ Op(c) = "create" /\ UNCHANGED reply /\ Goto(c, "wallet")
           /\ Count(c) <= Amount(c) /\ \A d \in Calls \ {c} : tx'[d] = tx[d]
  <2>1. PlanIsFair(c)'
    BY <1>4 DEF PlanIsFair
  <2>2. QED
    BY <1>1, <1>4, <2>1, GotoShares
<1>5. CASE StartRecharge(c)
  BY <1>2, <1>3, <1>5 DEF StartRecharge
<1>6. CASE InsertOrder(c)
  <2>1. \A d \in Calls \ {c} : tx'[d] = tx[d]
    BY <1>6 DEF InsertOrder, IInv, TypeOK
  <2>2. QED
    BY <1>3, <1>6, <2>1 DEF InsertOrder
<1>7. CASE StartCreate(c)
  <2>1. CASE Answer(c, "invalid")
    BY <1>2, <2>1
  <2>2. CASE ~Answer(c, "invalid")
    <3>1. /\ ~(Amount(c) < Count(c)) /\ Goto(c, "wallet") /\ UNCHANGED reply
          /\ tx' = [tx EXCEPT ![c].amount = Amount(c)] /\ Op(c) = "create"
      BY <1>7, <2>2 DEF StartCreate
    <3>2. Count(c) <= Amount(c)
      BY <3>1, RequestType
    <3>3. \A d \in Calls \ {c} : tx'[d] = tx[d]
      BY <3>1 DEF IInv, TypeOK
    <3>4. QED
      BY <1>4, <3>1, <3>2, <3>3
  <2>3. QED
    BY <2>1, <2>2
<1>8. CASE StartClaim(c)
  BY <1>2, <1>3, <1>8 DEF StartClaim
<1>9. CASE Precheck(c)
  <2>1. Op(c) = "claim"
    BY <1>9, RequestType DEF Precheck, At, IInv, CallOK, PathOK, Ops
  <2>2. QED
    BY <1>2, <1>3, <1>9, <2>1 DEF Precheck
<1>10. QED
  BY <1>5, <1>6, <1>7, <1>8, <1>9

(* The packet that a claim or a refund has locked can pay, and an expired  *)
(* one was refunded.                                                       *)
LEMMA VerdictNotBroken ==
  ASSUME IInv, ShareInv, NEW c \in Calls, Op(c) \in {"claim", "refund"}
  PROVE  Verdict(c) # "broken"
<1> DEFINE p == packet[Key(c)]
<1>1. Key(c) \in Packets /\ p \in PacketType
  BY RequestType DEF IInv, TypeOK, PacketType
<1>2. CASE Op(c) = "claim" /\ p.status = "active"
  <2>1. p.amount > 0 /\ p.count > 0
    BY <1>1, <1>2 DEF IInv, PacketShape
  <2>2. EvenSplit(p)
    BY <1>1, <1>2 DEF ShareInv, FairShares, Sent
  <2>3. Share(p) \in 1..p.amount
    BY <1>1, <2>1, <2>2, ShareIsEven
  <2>4. QED
    BY <1>2, <2>3 DEF Verdict, ClaimVerdict
<1>3. CASE Op(c) = "claim" /\ p.status # "active"
  BY <1>1, <1>3 DEF Verdict, ClaimVerdict, PacketType
<1>4. CASE Op(c) = "refund"
  <2>1. ASSUME p.status = "expired", p.sender = User(c)
        PROVE  Booked(User(c), "refund", Key(c))
    <3>1. Key(c) \in Refunded
      BY <1>1, <2>1 DEF Refunded
    <3>2. [user |-> p.sender, type |-> "refund", key |-> Key(c), amount |-> p.amount] \in ledger
      BY <3>1 DEF IInv, BooksAgree
    <3>3. QED
      BY <2>1, <3>2 DEF Booked
  <2>2. QED
    BY <1>4, <2>1 DEF Verdict, RefundVerdict
<1>5. QED
  BY <1>2, <1>3, <1>4

LEMMA LockPacketShares ==
  ASSUME IInv, ShareInv, NEW c \in Calls, LockPacket(c)
  PROVE  ShareInv'
<1>1. UNCHANGED tables /\ Op(c) \in {"claim", "refund"}
  BY RequestType DEF LockPacket, At, IInv, CallOK, PathOK, Ops
<1>2. CASE Verdict(c) \notin Plans
  BY <1>1, <1>2, VerdictNotBroken, AnswerShares DEF LockPacket
<1>3. CASE Verdict(c) \in Plans
  <2> DEFINE p == packet[Key(c)]
             n == IF Verdict(c) = "claim" THEN Share(p) ELSE p.amount
  <2>1. /\ UNCHANGED reply
        /\ tx' = [tx EXCEPT ![c].does = Verdict(c), ![c].amount = n]
        /\ \E s : Goto(c, s)
    BY <1>3 DEF LockPacket
  <2>2. \A d \in Calls \ {c} : tx'[d] = tx[d]
    BY <2>1 DEF IInv, TypeOK
  <2>3. tx'[c].does = Verdict(c) /\ tx'[c].amount = n /\ packet' = packet
    <3> HIDE DEF n
    <3>1. QED
      BY <1>1, <2>1 DEF IInv, TypeOK, tables
  <2>4. PlanIsFair(c)'
    BY <1>1, <2>3 DEF PlanIsFair
  <2>5. QED
    BY <1>1, <2>1, <2>2, <2>4, GotoShares
<1>4. QED
  BY <1>2, <1>3

LEMMA InsertClaimShares ==
  ASSUME IInv, ShareInv, NEW c \in Calls, InsertClaim(c)
  PROVE  ShareInv'
<1>1. UNCHANGED tables /\ Op(c) = "claim" /\ pc[c] = "insert"
  BY DEF InsertClaim, At
<1>2. CASE \E r \in {"already", "finished"} : Answer(c, r)
  BY <1>1, <1>2, AnswerShares
<1>3. CASE Goto(c, "wallet") /\ UNCHANGED <<tx, reply>>
  <2>1. PlanIsFair(c)'
    BY <1>1, <1>3 DEF PlanIsFair, ShareInv, tables
  <2>2. QED
    BY <1>1, <1>3, <2>1, GotoShares
<1>4. QED
  BY <1>2, <1>3 DEF InsertClaim

(* What a call is about to book is not in the books: the order and the     *)
(* claim it has inserted were not there, the packet is fresh, or active.   *)
LEMMA NotBookedYet ==
  ASSUME IInv, NEW c \in Calls, pc[c] = "wallet"
  PROVE  ~Booked(Payee(c), tx[c].does, Key(c))
<1> SUFFICES ASSUME NEW e \in ledger, e.user = Payee(c), e.type = tx[c].does, e.key = Key(c)
             PROVE  FALSE
  BY DEF Booked
<1>1. CallOK(c) /\ Op(c) \in Ops
  BY RequestType DEF IInv
<1>2. \/ \E o \in orders : e = [user |-> o.user, type |-> "recharge", key |-> o.key, amount |-> o.amount]
      \/ \E k \in claims : e = [user |-> k.user, type |-> "claim", key |-> k.key, amount |-> k.amount]
      \/ \E p \in Sent : e = [user |-> packet[p].sender, type |-> "create", key |-> p,
                              amount |-> packet[p].total]
      \/ \E p \in Refunded : e = [user |-> packet[p].sender, type |-> "refund", key |-> p,
                                  amount |-> packet[p].amount]
  BY DEF IInv, BooksAgree, Booking
<1>3. CASE Op(c) = "recharge"
  <2>1. tx[c].does = "recharge" /\ Payee(c) = User(c) /\ ~Ordered(User(c), Key(c))
    BY <1>1, <1>3 DEF CallOK, PathOK, RechargeOK, Payee
  <2>2. QED
    BY <1>2, <2>1 DEF Ordered
<1>4. CASE Op(c) = "create"
  <2>1. tx[c].does = "create" /\ packet[Key(c)].status = "none"
    BY <1>1, <1>4 DEF CallOK, PathOK, CreateOK
  <2>2. QED
    BY <1>2, <2>1 DEF Sent
<1>5. CASE Op(c) \in {"claim", "refund"} /\ tx[c].does = "claim"
  <2>1. Payee(c) = User(c) /\ ~Claimed(Key(c), User(c))
    BY <1>1, <1>5 DEF CallOK, PacketOK, Payee
  <2>2. QED
    BY <1>2, <1>5, <2>1 DEF Claimed
<1>6. CASE Op(c) \in {"claim", "refund"} /\ tx[c].does = "refund"
  <2>1. packet[Key(c)].status = "active"
    BY <1>1, <1>6 DEF CallOK, PacketOK
  <2>2. QED
    BY <1>2, <1>6, <2>1 DEF Refunded
<1>7. QED
  BY <1>1, <1>3, <1>4, <1>5, <1>6 DEF Ops, CallOK, PacketOK

LEMMA LockWalletShares ==
  ASSUME IInv, ShareInv, NEW c \in Calls, LockWallet(c)
  PROVE  ShareInv'
<1>1. UNCHANGED tables /\ pc[c] = "wallet"
  BY DEF LockWallet, At
<1>2. ~Booked(Payee(c), tx[c].does, Key(c))
  BY <1>1, NotBookedYet
<1>3. CASE Short(c)
  BY <1>1, <1>3, AnswerShares DEF LockWallet
<1>4. CASE ~Short(c)
  <2>1. /\ Goto(c, "commit") /\ UNCHANGED reply
        /\ \E b : tx' = [tx EXCEPT ![c].balance = b]
    BY <1>2, <1>4 DEF LockWallet
  <2>2. PICK b : tx' = [tx EXCEPT ![c].balance = b]
    BY <2>1
  <2>3. /\ tx'[c].does = tx[c].does /\ tx'[c].amount = tx[c].amount
        /\ \A d \in Calls \ {c} : tx'[d] = tx[d]
    BY <2>2 DEF IInv, TypeOK
  <2>4. PlanIsFair(c)'
    BY <1>1, <2>3 DEF PlanIsFair, ShareInv, tables
  <2>5. QED
    BY <1>1, <2>1, <2>3, <2>4, GotoShares
<1>5. QED
  BY <1>3, <1>4

(* Another call's plan is for a packet that it has locked, so that a       *)
(* commit does not change the packet.                                      *)
LEMMA CommitLeavesPlans ==
  ASSUME IInv, ShareInv, NEW c \in Calls, Commit(c)
  PROVE  (\A d \in Calls : PlanIsFair(d))' /\ NeverBroken'
<1>1. /\ pc[c] = "commit" /\ CallOK(c)
      /\ pc' = [pc EXCEPT ![c] = "returned"] /\ tx' = [tx EXCEPT ![c] = NoTx(c)]
      /\ reply' = [reply EXCEPT ![c] = Final(c)] \/ reply' = [reply EXCEPT ![c] = "failed"]
  BY CommitFacts
<1>2. pc'[c] = "returned"
      /\ \A d \in Calls \ {c} : pc'[d] = pc[d] /\ tx'[d] = tx[d]
  BY <1>1 DEF IInv, TypeOK
<1>3. NeverBroken'
  BY <1>1 DEF NeverBroken, ShareInv, IInv, TypeOK, Final
<1>4. PlanIsFair(c)'
  BY <1>2 DEF PlanIsFair
<1>5. ASSUME NEW d \in Calls \ {c} PROVE PlanIsFair(d)'
  <2>1. PlanIsFair(d) /\ CallOK(d)
    BY DEF ShareInv, IInv
  <2>2. CASE Op(d) = "claim" /\ tx[d].does = "claim" /\ pc[d] \in {"insert", "wallet", "commit"}
    <3>1. PacketRow(Key(d)) \in holds[d] /\ packet[Key(d)].status = "active"
      BY <2>1, <2>2 DEF CallOK, PacketOK
    <3>2. Key(d) \in Packets /\ packet \in [Packets -> PacketType]
      BY <2>2, RequestType DEF IInv, TypeOK, PacketType
    <3>3. \/ packet' = packet
          \/ \E row : packet' = [packet EXCEPT ![Key(c)] = row] /\ Key(c) # Key(d)
      <4>1. PacketRow(Key(c)) \in holds[c] => Key(c) # Key(d)
        BY <3>1 DEF IInv, RowsExclusive
      <4>2. QED
        BY <3>1, <4>1, CommitKinds
    <3>4. packet'[Key(d)] = packet[Key(d)]
      BY <3>2, <3>3
    <3>5. QED
      BY <1>2, <2>1, <3>4 DEF PlanIsFair
  <2>3. CASE ~(Op(d) = "claim" /\ tx[d].does = "claim" /\ pc[d] \in {"insert", "wallet", "commit"})
    BY <1>2, <2>1, <2>3 DEF PlanIsFair
  <2>4. QED
    BY <2>2, <2>3
<1>6. QED
  BY <1>3, <1>4, <1>5

(* The committed row of a packet and its claims, when one is changed.      *)
LEMMA OnePacketChanges ==
  ASSUME IInv, IInv', ShareInv, NEW q \in Packets,
         \A r \in Packets \ {q} : packet'[r] = packet[r] /\ TakenOf(r)' = TakenOf(r),
         packet'[q].status # "none",
         EvenSplit(packet'[q]),
         Cardinality(LargerOf(q)') = Larger(packet'[q]),
         Cardinality(TakenOf(q)') + packet'[q].count = packet'[q].parts,
         \A k \in TakenOf(q)' : k.amount \in {Base(packet'[q]), Base(packet'[q]) + 1},
         packet'[q].status = "finished" <=> packet'[q].count = 0,
         IsFiniteSet(claims'), \A k \in claims' : k \in claims \/ k.key = q
  PROVE  /\ IsFiniteSet(claims') /\ FairShares'
         /\ \A k \in claims' : packet'[k.key].status # "none"
<1>1. ASSUME NEW r \in Sent'
      PROVE  /\ EvenSplit(packet'[r])
             /\ Cardinality(LargerOf(r)') = Larger(packet'[r])
             /\ Cardinality(TakenOf(r)') + packet'[r].count = packet'[r].parts
             /\ \A k \in TakenOf(r)' : k.amount \in {Base(packet'[r]), Base(packet'[r]) + 1}
             /\ packet'[r].status = "finished" <=> packet'[r].count = 0
  <2>1. r \in Packets /\ packet'[r].status # "none"
    BY DEF Sent
  <2>2. CASE r = q
    BY <2>2
  <2>3. CASE r # q
    <3>1. packet'[r] = packet[r] /\ TakenOf(r)' = TakenOf(r) /\ r \in Sent
      BY <2>1, <2>3 DEF Sent
    <3>2. LargerOf(r)' = LargerOf(r)
      BY <3>1 DEF LargerOf, EvenShare
    <3>3. QED
      BY <3>1, <3>2 DEF ShareInv, FairShares
  <2>4. QED
    BY <2>2, <2>3
<1>2. FairShares'
  BY <1>1 DEF FairShares
<1>3. ASSUME NEW k \in claims' PROVE packet'[k.key].status # "none"
  <2>1. CASE k.key = q
    BY <2>1
  <2>2. CASE k.key # q
    <3>1. k.key \in Packets /\ k \in claims
      BY <2>2 DEF IInv, TypeOK
    <3>2. packet[k.key].status # "none"
      BY <3>1 DEF ShareInv
    <3>3. QED
      BY <2>2, <3>1, <3>2
  <2>3. QED
    BY <2>1, <2>2
<1>4. QED
  BY <1>2, <1>3

LEMMA CommitShares ==
  ASSUME IInv, IInv', ShareInv, NEW c \in Calls, Commit(c)
  PROVE  ShareInv'
<1> DEFINE q == Key(c)
           p == packet[Key(c)]
           n == tx[c].amount
<1>1. (\A d \in Calls : PlanIsFair(d))' /\ NeverBroken'
  BY CommitLeavesPlans
<1>2. /\ packet \in [Packets -> PacketType] /\ packet' \in [Packets -> PacketType]
      /\ Op(c) # "recharge" => q \in Packets
      /\ pc[c] = "commit" /\ CallOK(c) /\ PlanIsFair(c) /\ n \in Nat /\ Count(c) \in Nat
  BY RequestType, CommitFacts DEF IInv, TypeOK, PacketType, ShareInv
<1>3. IsFiniteSet(claims) /\ \A k \in claims : packet[k.key].status # "none"
  BY DEF ShareInv
<1>4. CASE Op(c) = "recharge"
  <2>1. packet' = packet /\ claims' = claims
    BY <1>4, CommitKinds
  <2>2. FairShares'
    BY <2>1 DEF ShareInv, FairShares, Sent, TakenOf, LargerOf, EvenShare
  <2>3. QED
    BY <1>1, <1>3, <2>1, <2>2 DEF ShareInv
<1>5. SUFFICES ASSUME Op(c) # "recharge"
               PROVE  /\ IsFiniteSet(claims') /\ FairShares'
                      /\ \A k \in claims' : packet'[k.key].status # "none"
  BY <1>1, <1>4 DEF ShareInv
<1>6. CASE Op(c) = "create"
  <2> DEFINE row == [status |-> "active", sender |-> User(c), total |-> n,
                     parts |-> Count(c), amount |-> n, count |-> Count(c)]
  <2>1. /\ claims' = claims /\ packet' = [packet EXCEPT ![q] = row]
        /\ p.status = "none" /\ Count(c) > 0
    BY <1>6, CommitKinds
  <2>2. n = Amount(c) /\ Count(c) <= Amount(c) /\ Amount(c) \in Nat
    BY <1>2, <1>6, RequestType DEF CallOK, CreateOK, PlanIsFair
  <2>3. packet'[q] = row /\ \A r \in Packets \ {q} : packet'[r] = packet[r]
    BY <1>2, <1>5, <2>1
  <2>4. /\ packet'[q].status = "active" /\ packet'[q].total = n /\ packet'[q].amount = n
        /\ packet'[q].parts = Count(c) /\ packet'[q].count = Count(c)
    BY <2>3
  <2> HIDE DEF row
  <2>5. EvenSplit(packet'[q])
    <3>1. /\ n \div Count(c) \in Nat /\ n % Count(c) \in Nat
          /\ n = Count(c) * (n \div Count(c)) + (n % Count(c))
      BY <1>2, <2>1, DivMod
    <3>2. Base(packet'[q]) = n \div Count(c) /\ Extra(packet'[q]) = n % Count(c)
      BY <2>4 DEF Base, Extra
    <3>3. Count(c) - Count(c) = 0
      BY <1>2
    <3> DEFINE b == n \div Count(c)
               x == n % Count(c)
    <3>4. n = Count(c) * b + (IF Count(c) - Count(c) < x THEN x - (Count(c) - Count(c)) ELSE 0)
      <4>1. b \in Nat /\ x \in Nat /\ n = Count(c) * b + x /\ Count(c) \in Nat
        BY <1>2, <3>1
      <4> HIDE DEF b, x
      <4>2. Count(c) * b \in Nat
        BY <4>1
      <4>3. QED
        BY <3>3, <4>1, <4>2
    <3>5. QED
      BY <1>2, <2>1, <2>2, <2>4, <3>2, <3>4 DEF EvenSplit
  <2>6. TakenOf(q)' = {}
    BY <1>3, <2>1 DEF TakenOf
  <2>7. Cardinality(TakenOf(q)') + packet'[q].count = packet'[q].parts
    BY <1>2, <2>4, <2>6, FS_EmptySet
  <2>8. \A r \in Packets \ {q} : TakenOf(r)' = TakenOf(r)
    BY <2>1 DEF TakenOf
  <2>9. packet'[q].status # "none" /\ (packet'[q].status = "finished" <=> packet'[q].count = 0)
    BY <1>2, <2>1, <2>4
  <2>10. \A k \in TakenOf(q)' : k.amount \in {Base(packet'[q]), Base(packet'[q]) + 1}
    BY <2>6
  <2>11. Cardinality(LargerOf(q)') = Larger(packet'[q])
    <3>1. LargerOf(q)' = {}
      BY <2>6 DEF LargerOf
    <3>2. Extra(packet'[q]) \in Nat /\ packet'[q].parts - packet'[q].count = 0
      <4>1. n % Count(c) \in Nat
        BY <1>2, <2>1, DivMod
      <4>2. Count(c) - Count(c) = 0
        BY <1>2
      <4>3. QED
        BY <2>4, <4>1, <4>2 DEF Extra
    <3>3. QED
      BY <3>1, <3>2, FS_EmptySet DEF Larger
  <2>12. QED
    BY <1>2, <1>3, <1>5, <2>1, <2>3, <2>5, <2>7, <2>8, <2>9, <2>10, <2>11, OnePacketChanges
<1>7. CASE tx[c].does = "claim" /\ Op(c) # "create"
  <2> DEFINE row == [user |-> User(c), key |-> q, amount |-> n]
  <2>1. /\ Op(c) = "claim" /\ claims' = claims \cup {row} /\ ~Claimed(q, User(c))
        /\ p.status = "active" /\ n \in 1..p.amount
    BY <1>7, CommitKinds
  <2>2. PICK s \in {"active", "finished"} :
          /\ packet' = [packet EXCEPT ![q] =
               [p EXCEPT !.amount = @ - n, !.count = @ - 1, !.status = s]]
          /\ s = "active" => p.count # 1 /\ p.amount # n
          /\ s = "finished" => p.amount = n
    BY <1>7, CommitKinds
  <2>3. q \in Packets /\ q \in Sent /\ p \in PacketType /\ p.count > 0
    BY <1>2, <1>5, <2>1 DEF Sent, IInv, PacketShape
  <2>4. /\ p.count \in Nat /\ p.parts \in Nat /\ p.amount \in Nat /\ p.total \in Nat
    BY <2>3 DEF PacketType
  <2>5. packet'[q] = [p EXCEPT !.amount = @ - n, !.count = @ - 1, !.status = s]
        /\ \A r \in Packets \ {q} : packet'[r] = packet[r]
    BY <1>2, <2>2, <2>3
  <2>6. /\ packet'[q].status = s /\ packet'[q].total = p.total /\ packet'[q].parts = p.parts
        /\ packet'[q].amount = p.amount - n /\ packet'[q].count = p.count - 1
    BY <2>3, <2>5 DEF PacketType
  <2>7. /\ EvenSplit(p) /\ Cardinality(TakenOf(q)) + p.count = p.parts
        /\ Cardinality(LargerOf(q)) = Larger(p)
        /\ \A k \in TakenOf(q) : k.amount \in {Base(p), Base(p) + 1}
    BY <2>3 DEF ShareInv, FairShares
  <2>8. n = Share(p)
    BY <1>2, <1>7, <2>1 DEF PlanIsFair
  <2>9. /\ n \in {Base(p), Base(p) + 1} /\ n \in Nat
        /\ p.count > 1 => n < p.amount
        /\ n = Base(p) + (IF p.parts - p.count < Extra(p) THEN 1 ELSE 0)
        /\ p.amount - n = (p.count - 1) * Base(p)
             + (IF p.parts - (p.count - 1) < Extra(p)
                  THEN Extra(p) - (p.parts - (p.count - 1)) ELSE 0)
    BY <2>3, <2>7, <2>8, ShareIsEven
  <2>10. Base(packet'[q]) = Base(p) /\ Extra(packet'[q]) = Extra(p)
    BY <2>6 DEF Base, Extra
  <2>11. EvenSplit(packet'[q])
    BY <2>4, <2>6, <2>7, <2>9, <2>10 DEF EvenSplit
  <2>12. packet'[q].status = "finished" <=> packet'[q].count = 0
    BY <2>2, <2>3, <2>4, <2>6, <2>9
  <2> HIDE DEF row
  <2>13. TakenOf(q)' = TakenOf(q) \cup {row} /\ row \notin TakenOf(q)
         /\ row.amount = n /\ row.key = q
    BY <2>1 DEF TakenOf, Claimed, row
  <2>14. IsFiniteSet(TakenOf(q))
    BY <1>3, FS_Subset DEF TakenOf
  <2>15. Cardinality(TakenOf(q)') = Cardinality(TakenOf(q)) + 1
         /\ Cardinality(TakenOf(q)) \in Nat
    BY <2>13, <2>14, FS_AddElement, FS_CardinalityType
  <2>16. Cardinality(TakenOf(q)') + packet'[q].count = packet'[q].parts
    BY <2>4, <2>6, <2>7, <2>15
  <2>17. \A k \in TakenOf(q)' : k.amount \in {Base(packet'[q]), Base(packet'[q]) + 1}
    BY <2>7, <2>9, <2>10, <2>13
  <2>18. \A r \in Packets \ {q} : TakenOf(r)' = TakenOf(r)
    BY <2>1, <2>13 DEF TakenOf
  <2>19. IsFiniteSet(claims') /\ \A k \in claims' : k \in claims \/ k.key = q
    BY <1>3, <2>1, <2>13, FS_AddElement
  <2>20. packet'[q].status # "none"
    BY <2>6
  <2>21. Cardinality(LargerOf(q)') = Larger(packet'[q])
    <3> DEFINE b == Base(p)
               x == Extra(p)
               given == p.parts - p.count
    <3>1. EvenShare(q) = b /\ EvenShare(q)' = b
      BY <2>10 DEF EvenShare, Base
    <3>2. b \in Nat /\ x \in Nat /\ given \in Nat
      BY <2>4, <2>7, DivMod DEF EvenSplit, Base, Extra
    <3>3. packet'[q].parts - packet'[q].count = given + 1 /\ Extra(packet'[q]) = x
      BY <2>4, <2>6, <2>10
    <3>4. IsFiniteSet(LargerOf(q)) /\ row \notin LargerOf(q)
      BY <2>13, <2>14, FS_Subset DEF LargerOf
    <3>5. n = b + (IF given < x THEN 1 ELSE 0)
      BY <2>9
    <3>6. LargerOf(q)' = {k \in TakenOf(q) \cup {row} : k.amount > b}
      BY <2>13, <3>1 DEF LargerOf
    <3>7. LargerOf(q) = {k \in TakenOf(q) : k.amount > b}
      BY <3>1 DEF LargerOf
    <3>8. Cardinality(LargerOf(q)) = IF given < x THEN given ELSE x
      BY <2>7 DEF Larger
    <3>9. Larger(packet'[q]) = IF given + 1 < x THEN given + 1 ELSE x
      BY <3>3 DEF Larger
    <3> HIDE DEF b, x, given
    <3>10. CASE given < x
      <4>1. LargerOf(q)' = LargerOf(q) \cup {row}
        BY <2>13, <3>2, <3>5, <3>6, <3>7, <3>10
      <4>2. Cardinality(LargerOf(q)') = given + 1
        BY <3>4, <3>8, <3>10, <4>1, FS_AddElement
      <4>3. QED
        BY <3>2, <3>9, <3>10, <4>2
    <3>11. CASE ~(given < x)
      <4>1. LargerOf(q)' = LargerOf(q)
        BY <2>13, <3>2, <3>5, <3>6, <3>7, <3>11
      <4>2. QED
        BY <3>2, <3>8, <3>9, <3>11, <4>1
    <3>12. QED
      BY <3>10, <3>11
  <2>22. QED
    BY <2>3, <2>5, <2>11, <2>12, <2>16, <2>17, <2>18, <2>19, <2>20, <2>21, OnePacketChanges
<1>8. CASE tx[c].does = "refund" /\ Op(c) # "create"
  <2>1. /\ claims' = claims /\ p.status = "active"
        /\ packet' = [packet EXCEPT ![q] = [p EXCEPT !.status = "expired"]]
    BY <1>8, CommitKinds
  <2>2. q \in Packets /\ q \in Sent /\ p \in PacketType /\ p.count > 0
    BY <1>2, <1>5, <2>1 DEF Sent, IInv, PacketShape
  <2>3. packet'[q] = [p EXCEPT !.status = "expired"]
        /\ \A r \in Packets \ {q} : packet'[r] = packet[r]
    BY <1>2, <2>1, <2>2
  <2>4. /\ packet'[q].status = "expired" /\ packet'[q].total = p.total
        /\ packet'[q].parts = p.parts /\ packet'[q].amount = p.amount
        /\ packet'[q].count = p.count /\ p.count \in Nat
    BY <2>2, <2>3 DEF PacketType
  <2>5. /\ EvenSplit(p) /\ Cardinality(TakenOf(q)) + p.count = p.parts
        /\ Cardinality(LargerOf(q)) = Larger(p)
        /\ \A k \in TakenOf(q) : k.amount \in {Base(p), Base(p) + 1}
    BY <2>2 DEF ShareInv, FairShares
  <2>6. /\ EvenSplit(packet'[q]) /\ Base(packet'[q]) = Base(p)
    BY <2>4, <2>5 DEF EvenSplit, Base, Extra
  <2>7. \A r \in Packets : TakenOf(r)' = TakenOf(r)
    BY <2>1 DEF TakenOf
  <2>8. packet'[q].status # "none" /\ (packet'[q].status = "finished" <=> packet'[q].count = 0)
    BY <2>2, <2>4
  <2>9. Cardinality(TakenOf(q)') + packet'[q].count = packet'[q].parts
        /\ \A k \in TakenOf(q)' : k.amount \in {Base(packet'[q]), Base(packet'[q]) + 1}
    BY <2>2, <2>4, <2>5, <2>6, <2>7
  <2>10. Cardinality(LargerOf(q)') = Larger(packet'[q])
    <3>1. LargerOf(q)' = LargerOf(q)
      BY <2>2, <2>4, <2>7 DEF LargerOf, EvenShare
    <3>2. QED
      BY <2>4, <2>5, <3>1 DEF Larger, Extra
  <2>11. QED
    BY <1>3, <2>1, <2>2, <2>3, <2>6, <2>7, <2>8, <2>9, <2>10, OnePacketChanges
<1>9. QED
  BY <1>5, <1>6, <1>7, <1>8, CommitKinds

LEMMA ShareInitHolds == Init => ShareInv
<1> SUFFICES ASSUME Init PROVE ShareInv
  OBVIOUS
<1>1. claims = {} /\ \A p \in Packets : packet[p] = NoPacket
  BY DEF Init
<1>2. Sent = {}
  BY <1>1 DEF Sent, NoPacket
<1>3. \A c \in Calls : PlanIsFair(c)
  BY DEF Init, PlanIsFair
<1>4. NeverBroken
  BY DEF Init, NeverBroken
<1>5. QED
  BY <1>1, <1>2, <1>3, <1>4, FS_EmptySet DEF ShareInv, FairShares

LEMMA ShareInvKept == IInv /\ IInv' /\ ShareInv /\ [Next]_vars => ShareInv'
<1> SUFFICES ASSUME IInv, IInv', ShareInv, [Next]_vars PROVE ShareInv'
  OBVIOUS
<1>1. ASSUME NEW c \in Calls, Step(c) PROVE ShareInv'
  BY <1>1, StartShares, LockPacketShares, InsertClaimShares, LockWalletShares, CommitShares
     DEF Step
<1>2. ASSUME NEW c \in Calls, Forbid(c) \/ Fail(c) PROVE ShareInv'
  BY <1>2, AnswerShares DEF Forbid, Fail
<1>3. CASE (\E p \in Packets : Expire(p)) \/ UNCHANGED vars
  <2>1. UNCHANGED <<tables, pc, tx, reply>>
    BY <1>3 DEF Expire, vars
  <2>2. QED
    BY <2>1 DEF ShareInv, FairShares, Sent, TakenOf, LargerOf, EvenShare, PlanIsFair, NeverBroken, tables
<1>4. QED
  BY <1>1, <1>2, <1>3 DEF Next

LEMMA ShareInvariant == Spec => []ShareInv
BY Invariant, ShareInitHolds, ShareInvKept, PTL DEF Spec

(* What is left of a packet is always what even shares of the rest come to *)
(* and each claim took such a share, or one fen more, so that the last one *)
(* needs no correction (nextEqualClaimAmount).                             *)
THEOREM SharesStayFair == Spec => []FairShares
<1>1. ShareInv => FairShares
  BY DEF ShareInv
<1>2. QED
  BY <1>1, ShareInvariant, PTL

(* A packet is always split evenly, to the fen, in as many parts as it     *)
(* has, the shares and the rest add up to what was paid in, and it is      *)
(* finished when no share is left.                                         *)
THEOREM SharesAlwaysEqual == Spec => []SharesAreEqual
<1>1. TypeOK /\ IsFiniteSet(claims) /\ FairShares => SharesAreEqual
  <2> SUFFICES ASSUME TypeOK, IsFiniteSet(claims), FairShares, NEW q \in Sent
               PROVE  EvenShare(q) * Cardinality(TakenOf(q)) + Cardinality(LargerOf(q))
                        + packet[q].amount = packet[q].total
    BY DEF SharesAreEqual, FairShares, EvenShare, Base
  <2> DEFINE p == packet[q]
             b == EvenShare(q)
             x == Extra(p)
             given == p.parts - p.count
  <2>1. /\ p.total \in Nat /\ p.parts \in Nat /\ p.count \in Nat /\ p.amount \in Nat
        /\ p.parts > 0 /\ p.count <= p.parts
        /\ p.amount = p.count * b + (IF given < x THEN x - given ELSE 0)
        /\ Cardinality(TakenOf(q)) + p.count = p.parts
        /\ Cardinality(LargerOf(q)) = IF given < x THEN given ELSE x
    BY DEF FairShares, EvenSplit, TypeOK, Sent, EvenShare, Base, Larger
  <2>2. /\ b \in Nat /\ x \in Nat /\ p.total = p.parts * b + x
    BY <2>1, DivMod DEF EvenShare, Extra
  <2>3. given \in Nat /\ Cardinality(TakenOf(q)) = given /\ p.parts = given + p.count
    <3>1. Cardinality(TakenOf(q)) \in Int
      BY FS_Subset, FS_CardinalityType DEF TakenOf
    <3>2. QED
      BY <2>1, <3>1
  <2> HIDE DEF b, x, given
  <2>4. p.total = b * given + p.count * b + x
    BY <2>1, <2>2, <2>3
  <2>5. b * given \in Nat /\ p.count * b \in Nat
    BY <2>1, <2>2, <2>3
  <2>6. b * given + Cardinality(LargerOf(q)) + p.amount = p.total
    BY <2>1, <2>2, <2>3, <2>4, <2>5
  <2>7. QED
    BY <2>3, <2>6 DEF b
<1>2. ShareInv => IsFiniteSet(claims) /\ FairShares
  BY DEF ShareInv
<1>3. QED
  BY <1>1, <1>2, TypeCorrect, ShareInvariant, PTL

(* The errors for inconsistent tables are never returned: a duplicate row  *)
(* in the ledger (updateWalletAndLedger), an expired packet without its    *)
(* refund (RefundExpired), a share out of range (Claim).                   *)
THEOREM TablesAreNeverBroken == Spec => []NeverBroken
<1>1. ShareInv => NeverBroken
  BY DEF ShareInv
<1>2. QED
  BY <1>1, ShareInvariant, PTL

-----------------------------------------------------------------------------
(* No two transactions wait for each other: each takes its rows in one     *)
(* order, a packet before a unique key before a wallet.                    *)

\* The rows and unique keys that the next statement of c locks.
Wanted(c) ==
  CASE pc[c] = "packet" -> {PacketRow(Key(c))}
    [] pc[c] = "insert" /\ Op(c) = "claim" -> {ClaimKey(User(c), Key(c)), PacketRow(Key(c))}
    [] pc[c] = "insert" /\ Op(c) = "recharge" -> {OrderKey(User(c), Key(c))}
    [] pc[c] = "wallet" -> {WalletRow(Payee(c))}
    [] OTHER -> {}

WaitsFor(c, d) == c # d /\ Wanted(c) \cap holds[d] # {}

\* How far a transaction is along the order of the locks.
Rank(c) ==
  CASE pc[c] = "packet" -> 1
    [] pc[c] = "insert" -> 2
    [] pc[c] = "wallet" -> 3
    [] pc[c] = "commit" -> 4
    [] OTHER -> 0

LocksAreOrdered == \A c, d \in Calls : WaitsFor(c, d) => Rank(c) < Rank(d)

\* What a transaction has locked by the time of each statement.
HoldsByStep(c) ==
  /\ pc[c] \in {"start", "precheck", "packet", "returned"} => holds[c] = {}
  /\ pc[c] = "insert" /\ Op(c) = "recharge" => holds[c] = {}
  /\ pc[c] = "insert" => \A row \in holds[c] : row.table = "red_packets"
  /\ pc[c] = "wallet" => \A row \in holds[c] : row.table # "wallet_accounts"

HoldsInv == \A c \in Calls : HoldsByStep(c)

(* A step of c that leaves c's own locks in order leaves all of them so.   *)
LEMMA OthersHold ==
  ASSUME IInv, HoldsInv, NEW c \in Calls, NEW s \in Steps, NEW R,
         pc' = [pc EXCEPT ![c] = s], holds' = [holds EXCEPT ![c] = R],
         HoldsByStep(c)'
  PROVE  HoldsInv'
<1>1. pc \in [Calls -> Steps] /\ holds \in [Calls -> SUBSET Rows]
  BY DEF IInv, TypeOK
<1>2. ASSUME NEW d \in Calls \ {c} PROVE HoldsByStep(d)'
  <2>1. pc'[d] = pc[d] /\ holds'[d] = holds[d] /\ HoldsByStep(d)
    BY <1>1 DEF HoldsInv
  <2>2. QED
    BY <2>1 DEF HoldsByStep
<1>3. QED
  BY <1>2 DEF HoldsInv

(* A call that returns, or goes back to its start, has dropped its locks.  *)
LEMMA AnswerHolds ==
  ASSUME IInv, HoldsInv, NEW c \in Calls, NEW r, Answer(c, r)
  PROVE  HoldsInv'
<1>1. /\ pc' = [pc EXCEPT ![c] = "returned"] /\ holds' = [holds EXCEPT ![c] = {}]
      /\ pc'[c] = "returned" /\ holds'[c] = {}
  BY DEF Answer, Goto, IInv, TypeOK
<1>2. HoldsByStep(c)'
  BY <1>1 DEF HoldsByStep
<1>3. "returned" \in Steps
  BY DEF Steps
<1>4. QED
  BY <1>1, <1>2, <1>3, OthersHold

(* A call that holds nothing and moves on without a lock holds nothing.    *)
LEMMA GotoHolds ==
  ASSUME IInv, HoldsInv, NEW c \in Calls, NEW s \in Steps,
         Goto(c, s), holds' = holds, holds[c] = {}
  PROVE  HoldsInv'
<1>1. /\ pc' = [pc EXCEPT ![c] = s] /\ holds' = [holds EXCEPT ![c] = {}]
      /\ holds'[c] = {}
  BY DEF Goto, IInv, TypeOK
<1>2. HoldsByStep(c)'
  BY <1>1 DEF HoldsByStep
<1>3. QED
  BY <1>1, <1>2, OthersHold

(* A statement that locks rows R and moves on to s.                        *)
LEMMA LockHolds ==
  ASSUME IInv, HoldsInv, NEW c \in Calls, NEW s \in {"insert", "wallet", "commit"},
         NEW R \in SUBSET Rows,
         Goto(c, s), holds' = [holds EXCEPT ![c] = @ \cup R],
         s = "insert" => /\ Op(c) # "recharge"
                         /\ \A row \in holds[c] \cup R : row.table = "red_packets",
         s = "wallet" => \A row \in holds[c] \cup R : row.table # "wallet_accounts"
  PROVE  HoldsInv'
<1>1. /\ pc' = [pc EXCEPT ![c] = s] /\ holds' = [holds EXCEPT ![c] = holds[c] \cup R]
      /\ pc'[c] = s /\ holds'[c] = holds[c] \cup R
  BY DEF Goto, IInv, TypeOK
<1>2. HoldsByStep(c)'
  BY <1>1 DEF HoldsByStep
<1>3. s \in Steps
  BY DEF Steps
<1>4. QED
  BY <1>1, <1>2, <1>3, OthersHold

LEMMA RechargeHolds ==
  ASSUME IInv, HoldsInv, NEW c \in Calls, StartRecharge(c) \/ InsertOrder(c)
  PROVE  HoldsInv'
<1>1. holds[c] = {} /\ {"start", "insert"} \subseteq Steps
  BY DEF StartRecharge, InsertOrder, At, HoldsInv, HoldsByStep, Steps
<1>2. CASE \E r \in Replies : Answer(c, r)
  BY <1>2, AnswerHolds
<1>3. CASE (Goto(c, "insert") \/ Goto(c, "start")) /\ UNCHANGED holds
  BY <1>1, <1>3, GotoHolds
<1>4. CASE InsertOrder(c) /\ Goto(c, "wallet") /\ Lock(c, OrderKey(User(c), Key(c)))
  <2> DEFINE row == OrderKey(User(c), Key(c))
  <2>1. {row} \in SUBSET Rows
    BY <1>4, RequestType DEF InsertOrder, Rows
  <2>2. row.table = "mock_payment_orders"
    BY DEF OrderKey
  <2>3. holds' = [holds EXCEPT ![c] = @ \cup {row}]
    BY <1>4 DEF Lock
  <2> HIDE DEF row
  <2>4. QED
    BY <1>1, <1>4, <2>1, <2>2, <2>3, LockHolds
<1>5. QED
  BY <1>2, <1>3, <1>4 DEF StartRecharge, InsertOrder, Replies

LEMMA StartHolds ==
  ASSUME IInv, HoldsInv, NEW c \in Calls, StartCreate(c) \/ StartClaim(c) \/ Precheck(c)
  PROVE  HoldsInv'
<1>1. holds[c] = {} /\ {"wallet", "precheck", "packet"} \subseteq Steps
  BY DEF StartCreate, StartClaim, Precheck, At, HoldsInv, HoldsByStep, Steps
<1>2. CASE \E r \in Replies : Answer(c, r)
  BY <1>2, AnswerHolds
<1>3. CASE (Goto(c, "wallet") \/ Goto(c, "precheck") \/ Goto(c, "packet")) /\ UNCHANGED holds
  BY <1>1, <1>3, GotoHolds
<1>4. QED
  BY <1>2, <1>3 DEF StartCreate, StartClaim, Precheck, Replies

LEMMA PacketHolds ==
  ASSUME IInv, HoldsInv, NEW c \in Calls, LockPacket(c)
  PROVE  HoldsInv'
<1>1. holds[c] = {}
  BY DEF LockPacket, At, HoldsInv, HoldsByStep
<1>2. CASE Verdict(c) \notin Plans
  BY <1>2, AnswerHolds DEF LockPacket
<1>3. CASE Verdict(c) \in Plans
  <2> DEFINE row == PacketRow(Key(c))
  <2>1. /\ holds' = [holds EXCEPT ![c] = @ \cup {row}]
        /\ Goto(c, "insert") \/ Goto(c, "wallet") \/ Goto(c, "commit")
    BY <1>3 DEF LockPacket, Lock
  <2>2. Op(c) # "recharge"
    BY DEF LockPacket, At, IInv, CallOK, PathOK
  <2>3. {row} \in SUBSET Rows /\ row.table = "red_packets"
    BY <2>2, RequestType DEF Rows, PacketRow
  <2> HIDE DEF row
  <2>4. QED
    BY <1>1, <2>1, <2>2, <2>3, LockHolds
<1>4. QED
  BY <1>2, <1>3

LEMMA ClaimHolds ==
  ASSUME IInv, HoldsInv, NEW c \in Calls, InsertClaim(c)
  PROVE  HoldsInv'
<1>1. \A row \in holds[c] : row.table = "red_packets"
  BY DEF InsertClaim, At, HoldsInv, HoldsByStep
<1>2. CASE \E r \in Replies : Answer(c, r)
  BY <1>2, AnswerHolds
<1>3. CASE ~\E r \in Replies : Answer(c, r)
  <2> DEFINE R == {ClaimKey(User(c), Key(c)), PacketRow(Key(c))}
  <2>1. holds' = [holds EXCEPT ![c] = @ \cup R] /\ Goto(c, "wallet")
    BY <1>3 DEF InsertClaim, Replies
  <2>2. R \in SUBSET Rows
    BY RequestType DEF InsertClaim, Rows
  <2>3. \A row \in R : row.table # "wallet_accounts"
    BY DEF ClaimKey, PacketRow
  <2> HIDE DEF R
  <2>4. \A row \in holds[c] \cup R : row.table # "wallet_accounts"
    BY <1>1, <2>3
  <2>5. QED
    BY <2>1, <2>2, <2>4, LockHolds
<1>4. QED
  BY <1>2, <1>3

LEMMA WalletHolds ==
  ASSUME IInv, HoldsInv, NEW c \in Calls, LockWallet(c)
  PROVE  HoldsInv'
<1>1. CASE \E r \in Replies : Answer(c, r)
  BY <1>1, AnswerHolds
<1>2. CASE ~\E r \in Replies : Answer(c, r)
  <2> DEFINE row == WalletRow(Payee(c))
  <2>1. holds' = [holds EXCEPT ![c] = @ \cup {row}] /\ Goto(c, "commit")
    BY <1>2 DEF LockWallet, Lock, Replies
  <2>2. Payee(c) \in Users
    BY PlanFacts DEF LockWallet, At
  <2>3. {row} \in SUBSET Rows
    BY <2>2 DEF Rows
  <2> HIDE DEF row
  <2>4. QED
    BY <2>1, <2>3, LockHolds
<1>3. QED
  BY <1>1, <1>2

LEMMA StepHolds == IInv /\ HoldsInv /\ [Next]_vars => HoldsInv'
<1> SUFFICES ASSUME IInv, HoldsInv, [Next]_vars PROVE HoldsInv'
  OBVIOUS
<1>1. ASSUME NEW c \in Calls, Step(c) PROVE HoldsInv'
  <2>1. CASE Commit(c)
    <3>1. \E r \in Replies : Answer(c, r)
      BY <2>1 DEF Commit, Final, Replies
    <3>2. QED
      BY <3>1, AnswerHolds
  <2>2. QED
    BY <1>1, <2>1, RechargeHolds, StartHolds, PacketHolds, ClaimHolds, WalletHolds DEF Step
<1>2. ASSUME NEW c \in Calls, Forbid(c) \/ Fail(c) PROVE HoldsInv'
  BY <1>2, AnswerHolds DEF Forbid, Fail
<1>3. CASE UNCHANGED <<pc, holds>>
  BY <1>3 DEF HoldsInv, HoldsByStep
<1>4. QED
  BY <1>1, <1>2, <1>3 DEF Next, Expire, vars

(* Whoever holds what another transaction waits for is further along.      *)
LEMMA HoldsGiveOrder == IInv /\ HoldsInv => LocksAreOrdered
<1> SUFFICES ASSUME IInv, HoldsInv, NEW c \in Calls, NEW d \in Calls, WaitsFor(c, d)
             PROVE  Rank(c) < Rank(d)
  BY DEF LocksAreOrdered
<1>1. /\ c # d /\ holds[c] \cap holds[d] = {} /\ HoldsByStep(d)
      /\ pc[d] \in Steps
  BY DEF WaitsFor, IInv, RowsExclusive, HoldsInv, TypeOK
<1>2. PICK row \in Wanted(c) : row \in holds[d]
  BY DEF WaitsFor
<1>3. Rank(d) \in {2, 3, 4}
  BY <1>1, <1>2 DEF HoldsByStep, Steps, Rank
<1>4. CASE pc[c] = "packet"
  BY <1>3, <1>4 DEF Rank
<1>5. CASE pc[c] = "insert"
  <2>1. row.table # "red_packets"
    <3>1. CASE Op(c) = "claim"
      <4>1. PacketRow(Key(c)) \in holds[c]
        BY <1>5, <3>1 DEF IInv, CallOK, PacketOK
      <4>2. row = ClaimKey(User(c), Key(c))
        BY <1>1, <1>2, <1>5, <3>1, <4>1 DEF Wanted
      <4>3. QED
        BY <4>2 DEF ClaimKey
    <3>2. CASE Op(c) = "recharge"
      <4>1. row = OrderKey(User(c), Key(c))
        BY <1>2, <1>5, <3>2 DEF Wanted
      <4>2. QED
        BY <4>1 DEF OrderKey
    <3>3. QED
      BY <1>2, <1>5, <3>1, <3>2 DEF Wanted
  <2>2. Rank(d) \in {3, 4}
    BY <1>1, <1>2, <2>1 DEF HoldsByStep, Steps, Rank
  <2>3. QED
    BY <1>5, <2>2 DEF Rank
<1>6. CASE pc[c] = "wallet"
  <2>1. row.table = "wallet_accounts"
    BY <1>2, <1>6 DEF Wanted, WalletRow
  <2>2. Rank(d) = 4
    BY <1>1, <1>2, <2>1 DEF HoldsByStep, Steps, Rank
  <2>3. QED
    BY <1>6, <2>2 DEF Rank
<1>7. QED
  BY <1>2, <1>4, <1>5, <1>6 DEF Wanted

(* Transactions never wait for one another in a circle: whoever holds the  *)
(* row a call waits for has come further in one order of the locks, so the *)
(* server's deadlock detector never has to pick one of them.               *)
THEOREM LocksStayOrdered == Spec => []LocksAreOrdered
<1>1. Init => HoldsInv
  BY DEF Init, HoldsInv, HoldsByStep
<1>2. QED
  BY <1>1, StepHolds, HoldsGiveOrder, Invariant, PTL DEF Spec

=============================================================================
