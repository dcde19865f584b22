----------------------------- MODULE RedPacket -----------------------------
(***************************************************************************)
(* Site wallet and red packets: mock recharge, create, claim and refund    *)
(* (src/internal/logic/wallet.go, redpacket.go and the Gateway's           *)
(* redpacketlogic.go and walletlogic.go) over the tables of sql/init.sql.  *)
(*                                                                         *)
(* Each element of Calls is one API call.  Its transaction takes row locks *)
(* and keeps them until it ends, its writes show when it commits, and a    *)
(* plain read sees committed rows only (READ COMMITTED).  A locking read   *)
(* or an INSERT waits for the call that holds the row or the unique key.   *)
(***************************************************************************)
EXTENDS Integers, FiniteSetsExt

CONSTANTS
  Users, NoUser,
  Packets,      \* red packet ids, one drawn by each create call
  Requests,     \* request_id values of recharges
  Calls,
  Request,      \* [Calls -> [op, user, key, amount, count]]
  MaxRecharge,  \* 1_000_000 fen
  MaxCount,     \* 1000 shares
  MaxMishaps    \* bound: failed statements, lost answers, refused access

Ops == {"recharge", "create", "claim", "refund"}

Op(c) == Request[c].op
User(c) == Request[c].user
Key(c) == Request[c].key        \* request id or packet id: the business_id
Amount(c) == Request[c].amount
Count(c) == Request[c].count

ASSUME RedPacketAssumption ==
  /\ NoUser \notin Users
  /\ MaxRecharge \in Nat
  /\ MaxCount \in Nat
  /\ MaxMishaps \in Nat
  /\ Request \in [Calls -> [op : Ops, user : Users, key : Packets \cup Requests,
                            amount : Nat, count : Nat]]
  /\ \A c \in Calls : Key(c) \in IF Op(c) = "recharge" THEN Requests ELSE Packets
  /\ \A c, d \in Calls :          \* newID
       Op(c) = "create" /\ Op(d) = "create" /\ Key(c) = Key(d) => c = d

VARIABLES
  balance,      \* wallet_accounts.available_balance
  ledger,       \* wallet_ledger
  orders,       \* mock_payment_orders
  packet,       \* red_packets
  claims,       \* red_packet_claims
  past,         \* packets whose expires_at has passed
  pc,           \* where a call stands
  tx,           \* what its transaction is about to do
  holds,        \* the rows and unique keys its transaction has locked
  reply,        \* what the call returned
  mishaps       \* mishaps so far

tables == <<balance, ledger, orders, packet, claims>>
vars == <<tables, past, pc, tx, holds, reply, mishaps>>
env == <<past, mishaps>>

Steps == {"start", "precheck", "packet", "insert", "wallet", "commit", "returned"}

Plans == {"recharge", "create", "claim", "refund", "finish"}

NoPacket == [status |-> "none", sender |-> NoUser, total |-> 0, parts |-> 0,
             amount |-> 0, count |-> 0]

\* A refusal and an error return no data; "broken" is one the code expects never.
Replies == {"none", "ok", "already", "invalid", "forbidden", "notfound",
            "insufficient", "finished", "expired", "notsender", "notexpired",
            "broken", "failed"}

\* Before a plan is made; an ended transaction leaves nothing either.
NoTx(c) == [does |-> Op(c), amount |-> 0, balance |-> 0]

Entries == [user : Users, type : {"recharge", "create", "claim", "refund"},
            key : Packets \cup Requests, amount : Nat]

-----------------------------------------------------------------------------
Init ==
  /\ balance = [u \in Users |-> 0]
  /\ ledger = {}
  /\ orders = {}
  /\ packet = [p \in Packets |-> NoPacket]
  /\ claims = {}
  /\ past = {}
  /\ pc = [c \in Calls |-> IF Op(c) = "refund" THEN "packet" ELSE "start"]
  /\ tx = [c \in Calls |-> NoTx(c)]
  /\ holds = [c \in Calls |-> {}]
  /\ reply = [c \in Calls |-> "none"]
  /\ mishaps = 0

At(c, step) == pc[c] = step

Goto(c, step) == pc' = [pc EXCEPT ![c] = step]

WalletRow(u) == [table |-> "wallet_accounts", user |-> u, key |-> "-"]
PacketRow(p) == [table |-> "red_packets", user |-> "-", key |-> p]
OrderKey(u, r) == [table |-> "mock_payment_orders", user |-> u, key |-> r]
ClaimKey(u, p) == [table |-> "red_packet_claims", user |-> u, key |-> p]

Rows ==
  {WalletRow(u) : u \in Users} \cup {PacketRow(p) : p \in Packets}
    \cup {OrderKey(u, r) : u \in Users, r \in Requests}
    \cup {ClaimKey(u, p) : u \in Users, p \in Packets}

\* Faulty: SELECT of the packet without FOR UPDATE.
FreePacketUnlocked(c, row) ==
  row.table = "red_packets" \/ \A d \in Calls \ {c} : row \notin holds[d]

\* No other transaction holds the row.
Free(c, row) == \A d \in Calls \ {c} : row \notin holds[d]

Lock(c, row) == holds' = [holds EXCEPT ![c] = @ \cup {row}]

\* Faulty: returns without ending the transaction.
AnswerOpen(c, r) ==
  /\ Goto(c, "returned")
  /\ reply' = [reply EXCEPT ![c] = r]
  /\ tx' = [tx EXCEPT ![c] = NoTx(c)]
  /\ UNCHANGED holds

\* A return rolls back whatever is not committed and drops the locks.
Answer(c, r) ==
  /\ Goto(c, "returned")
  /\ reply' = [reply EXCEPT ![c] = r]
  /\ holds' = [holds EXCEPT ![c] = {}]
  /\ tx' = [tx EXCEPT ![c] = NoTx(c)]

Ordered(u, r) == \E o \in orders : o.user = u /\ o.key = r

Claimed(p, u) == \E k \in claims : k.key = p /\ k.user = u

\* The unique key (user_id, business_type, business_id).
Booked(u, type, k) == \E e \in ledger : e.user = u /\ e.type = type /\ e.key = k

-----------------------------------------------------------------------------
(* MockRecharge: validation and loadRecharge.                              *)
StartRecharge(c) ==
  /\ At(c, "start")
  /\ Op(c) = "recharge"
  /\ IF Amount(c) \notin 1..MaxRecharge
       THEN Answer(c, "invalid")
       ELSE IF ~Ordered(User(c), Key(c))
              THEN Goto(c, "insert") /\ UNCHANGED <<tx, holds, reply>>
              ELSE Answer(c, IF \E o \in orders : /\ o.user = User(c)
                                                  /\ o.key = Key(c)
                                                  /\ o.amount = Amount(c)
                               THEN "already" ELSE "invalid")
  /\ UNCHANGED <<tables, env>>

\* INSERT of the payment order; a duplicate starts the call again.
InsertOrder(c) ==
  /\ At(c, "insert")
  /\ Op(c) = "recharge"
  /\ Free(c, OrderKey(User(c), Key(c)))
  /\ IF Ordered(User(c), Key(c))
       THEN Goto(c, "start") /\ UNCHANGED <<tx, holds>>
       ELSE /\ Lock(c, OrderKey(User(c), Key(c)))
            /\ tx' = [tx EXCEPT ![c].amount = Amount(c)]
            /\ Goto(c, "wallet")
  /\ UNCHANGED <<tables, env, reply>>

\* RedPacketService.Create up to its transaction.
StartCreate(c) ==
  /\ At(c, "start")
  /\ Op(c) = "create"
  /\ IF \/ Amount(c) = 0
        \/ Count(c) \notin 1..MaxCount
        \/ Amount(c) < Count(c)
        \/ Key(c) \in past
       THEN Answer(c, "invalid")
       ELSE /\ Goto(c, "wallet")
            /\ tx' = [tx EXCEPT ![c].amount = Amount(c)]
            /\ UNCHANGED <<holds, reply>>
  /\ UNCHANGED <<tables, env>>

(* RedPacketLogic.Create and Claim: the friend and group tables, which other *)
(* parts of the system write, deny the conversation to the user.           *)
Forbid(c) ==
  /\ At(c, "start")
  /\ \/ Op(c) = "create"
     \/ Op(c) = "claim" /\ packet[Key(c)].status # "none"
  /\ Answer(c, "forbidden")
  /\ UNCHANGED <<tables, past>>

\* RedPacketLogic.Claim: the packet exists.
StartClaim(c) ==
  /\ At(c, "start")
  /\ Op(c) = "claim"
  /\ IF packet[Key(c)].status = "none"
       THEN Answer(c, "notfound")
       ELSE Goto(c, "precheck") /\ UNCHANGED <<tx, holds, reply>>
  /\ UNCHANGED <<tables, env>>

\* RedPacketService.Claim: loadClaim before the transaction.
Precheck(c) ==
  /\ At(c, "precheck")
  /\ IF Claimed(Key(c), User(c))
       THEN Answer(c, "already")
       ELSE Goto(c, "packet") /\ UNCHANGED <<tx, holds, reply>>
  /\ UNCHANGED <<tables, env>>

-----------------------------------------------------------------------------
(* nextEqualClaimAmount.                                                   *)
Share(p) ==
  IF p.count = 1
    THEN p.amount
    ELSE (p.total \div p.parts)
           + (IF p.parts - p.count < p.total % p.parts THEN 1 ELSE 0)

\* What Claim does on the locked packet: a plan or an answer.
ClaimVerdict(c) ==
  LET p == packet[Key(c)] IN
    IF p.status = "none" THEN "notfound"
    ELSE IF p.status = "expired" THEN "expired"
    ELSE IF p.status = "finished" THEN "finished"
    ELSE IF Key(c) \in past THEN "refund"
    ELSE IF p.count = 0 \/ p.amount = 0 THEN "finish"
    ELSE IF Share(p) \notin 1..p.amount THEN "broken"
    ELSE "claim"

\* What RefundExpired does on the locked packet.
RefundVerdict(c) ==
  LET p == packet[Key(c)] IN
    IF p.status = "none" THEN "notfound"
    ELSE IF p.sender # User(c) THEN "notsender"
    ELSE IF p.status = "finished" THEN "finished"
    ELSE IF p.status = "expired"
      THEN IF Booked(User(c), "refund", Key(c)) THEN "already" ELSE "broken"
    ELSE IF Key(c) \notin past THEN "notexpired"
    ELSE "refund"

Verdict(c) == IF Op(c) = "claim" THEN ClaimVerdict(c) ELSE RefundVerdict(c)

\* loadRedPacketForUpdate and the decision on what it read.
LockPacket(c) ==
  /\ At(c, "packet")
  /\ Free(c, PacketRow(Key(c)))
  /\ LET p == packet[Key(c)]
         v == Verdict(c)
     IN IF v \notin Plans
          THEN Answer(c, v)
          ELSE /\ Lock(c, PacketRow(Key(c)))
               /\ tx' = [tx EXCEPT ![c].does = v,
                                   ![c].amount = IF v = "claim" THEN Share(p)
                                                                ELSE p.amount]
               /\ Goto(c, CASE v = "claim" -> "insert"
                            [] v = "refund" /\ p.amount > 0 -> "wallet"
                            [] OTHER -> "commit")
               /\ UNCHANGED reply
  /\ UNCHANGED <<tables, env>>

\* INSERT of the claim and the guarded UPDATE of the packet.
InsertClaim(c) ==
  /\ At(c, "insert")
  /\ Op(c) = "claim"
  /\ Free(c, ClaimKey(User(c), Key(c)))
  /\ Free(c, PacketRow(Key(c)))
  /\ IF Claimed(Key(c), User(c))
       THEN Answer(c, "already")
       ELSE IF packet[Key(c)].amount < tx[c].amount \/ packet[Key(c)].count = 0
              THEN Answer(c, "finished")
              ELSE /\ holds' = [holds EXCEPT ![c] =
                                  @ \cup {ClaimKey(User(c), Key(c)), PacketRow(Key(c))}]
                   /\ Goto(c, "wallet")
                   /\ UNCHANGED <<tx, reply>>
  /\ UNCHANGED <<tables, env>>

-----------------------------------------------------------------------------
\* Faulty: a refund goes to whoever noticed the expiry.
PayeeCaller(c) == User(c)

\* Whose wallet the transaction changes.
Payee(c) == IF tx[c].does = "refund" THEN packet[Key(c)].sender ELSE User(c)

\* Create and updateWalletAndLedger refuse a debit that the wallet cannot bear.
Short(c) == tx[c].does = "create" /\ balance[User(c)] < tx[c].amount

\* lockWallet and updateWalletAndLedger: the new balance is an absolute value.
LockWallet(c) ==
  /\ At(c, "wallet")
  /\ Free(c, WalletRow(Payee(c)))
  /\ LET u == Payee(c)
         d == tx[c].does
         n == tx[c].amount
     IN IF Short(c) THEN Answer(c, "insufficient")
        ELSE IF Booked(u, d, Key(c)) THEN Answer(c, "broken")
        ELSE /\ Lock(c, WalletRow(u))
             /\ tx' = [tx EXCEPT ![c].balance =
                         IF d = "create" THEN balance[u] - n ELSE balance[u] + n]
             /\ Goto(c, "commit")
             /\ UNCHANGED reply
  /\ UNCHANGED <<tables, env>>

\* Faulty: forgets to count the share.
TakenUncounted(p, n) ==
  [p EXCEPT !.amount = @ - n,
            !.status = IF p.count = 1 \/ p.amount = n THEN "finished" ELSE "active"]

\* The UPDATE of a claim.
Taken(p, n) ==
  [p EXCEPT !.amount = @ - n, !.count = @ - 1,
            !.status = IF p.count = 1 \/ p.amount = n THEN "finished" ELSE "active"]

\* The packet row as the transaction leaves it.
After(c) ==
  LET p == packet[Key(c)]
      n == tx[c].amount
  IN CASE tx[c].does = "create" ->
            [status |-> "active", sender |-> User(c), total |-> n, parts |-> Count(c),
             amount |-> n, count |-> Count(c)]
       [] tx[c].does = "claim" -> Taken(p, n)
       [] tx[c].does = "refund" -> [p EXCEPT !.status = "expired"]
       [] tx[c].does = "finish" -> [p EXCEPT !.status = "finished"]

Final(c) ==
  IF Op(c) # "claim" \/ tx[c].does = "claim" THEN "ok"
  ELSE IF tx[c].does = "refund" THEN "expired" ELSE "finished"

Mishap ==
  /\ mishaps < MaxMishaps
  /\ mishaps' = mishaps + 1

\* COMMIT; its answer may get lost on the way back.
Commit(c) ==
  /\ At(c, "commit")
  /\ LET u == Payee(c)
         d == tx[c].does
         n == tx[c].amount
         row == [user |-> u, key |-> Key(c), amount |-> n]
     IN /\ IF n = 0 \/ d = "finish"
             THEN UNCHANGED <<balance, ledger>>
             ELSE /\ balance' = [balance EXCEPT ![u] = tx[c].balance]
                  /\ ledger' = ledger \cup
                       {[user |-> u, type |-> d, key |-> Key(c), amount |-> n]}
        /\ orders' = IF d = "recharge" THEN orders \cup {row} ELSE orders
        /\ claims' = IF d = "claim" THEN claims \cup {row} ELSE claims
        /\ packet' = IF d = "recharge" THEN packet
                                       ELSE [packet EXCEPT ![Key(c)] = After(c)]
  /\ \/ Answer(c, Final(c)) /\ UNCHANGED mishaps
     \/ Answer(c, "failed") /\ Mishap
  /\ UNCHANGED past

\* A statement fails, the deadlock detector picks the call, its process ends.
Fail(c) ==
  /\ pc[c] # "returned"
  /\ Answer(c, "failed")
  /\ UNCHANGED <<tables, past>>

\* The clock passes expires_at.
Expire(p) ==
  /\ past' = past \cup {p}
  /\ UNCHANGED <<tables, pc, tx, holds, reply, mishaps>>

-----------------------------------------------------------------------------
Step(c) ==
  \/ StartRecharge(c) \/ InsertOrder(c)
  \/ StartCreate(c)
  \/ StartClaim(c) \/ Precheck(c)
  \/ LockPacket(c) \/ InsertClaim(c)
  \/ LockWallet(c) \/ Commit(c)

Next ==
  \/ \E c \in Calls : Step(c)
  \/ \E c \in Calls : (Forbid(c) \/ Fail(c)) /\ Mishap
  \/ \E p \in Packets : Expire(p)

Spec == Init /\ [][Next]_vars

\* As long as the locks let some call run its next statement, MySQL runs one.
FairSpec == Spec /\ WF_vars(\E c \in Calls : Step(c))

-----------------------------------------------------------------------------
(* A wallet never goes negative, whatever races for it, and every row keeps *)
(* the shape of its table.                                                 *)
TypeOK ==
  /\ balance \in [Users -> Nat]
  /\ ledger \subseteq Entries
  /\ orders \subseteq [user : Users, key : Requests, amount : Nat]
  /\ packet \in [Packets -> [status : {"none", "active", "finished", "expired"},
                             sender : Users \cup {NoUser}, total : Nat, parts : Nat,
                             amount : Nat, count : Nat]]
  /\ claims \subseteq [user : Users, key : Packets, amount : Nat]
  /\ past \subseteq Packets
  /\ pc \in [Calls -> Steps]
  /\ tx \in [Calls -> [does : Plans, amount : Nat, balance : Nat]]
  /\ holds \in [Calls -> SUBSET Rows]
  /\ reply \in [Calls -> Replies]
  /\ mishaps \in 0..MaxMishaps

Sent == {p \in Packets : packet[p].status # "none"}

Refunded == {p \in Packets : packet[p].status = "expired"}

Booking(type, rows) ==
  {[user |-> r.user, type |-> type, key |-> r.key, amount |-> r.amount] : r \in rows}

(* The ledger says exactly what the business tables say: one entry for     *)
(* each paid order and each claim, one debit of the full sum for each      *)
(* packet, and for an expired one a credit of what was left, to its sender.*)
BooksAgree ==
  ledger =
    Booking("recharge", orders) \cup Booking("claim", claims)
      \cup {[user |-> packet[p].sender, type |-> "create", key |-> p,
             amount |-> packet[p].total] : p \in Sent}
      \cup {[user |-> packet[p].sender, type |-> "refund", key |-> p,
             amount |-> packet[p].amount] : p \in Refunded}

TakenOf(p) == {k \in claims : k.key = p}

EvenShare(p) == packet[p].total \div packet[p].parts

LargerOf(p) == {k \in TakenOf(p) : k.amount > EvenShare(p)}

(* Claims split a packet evenly, in as many parts as it has: each is of    *)
(* the even share, or of one fen more.  Counted by these two sizes they    *)
(* and what is left add up to what was paid in, and the last one finishes  *)
(* the packet (nextEqualClaimAmount).                                      *)
SharesAreEqual ==
  \A p \in Sent :
    /\ Cardinality(TakenOf(p)) + packet[p].count = packet[p].parts
    /\ \A k \in TakenOf(p) : k.amount \in {EvenShare(p), EvenShare(p) + 1}
    /\ EvenShare(p) * Cardinality(TakenOf(p)) + Cardinality(LargerOf(p)) + packet[p].amount
         = packet[p].total
    /\ packet[p].status = "finished" <=> packet[p].count = 0

(* The errors that only inconsistent tables can cause are never returned:  *)
(* a ledger entry there twice, an expired packet without a refund, a share *)
(* that the packet cannot pay.                                             *)
NeverBroken == \A c \in Calls : reply[c] # "broken"

ReplyIsTrue(c) ==
  /\ reply[c] \in {"ok", "already"} => Booked(User(c), Op(c), Key(c))
  /\ Op(c) = "create" /\ reply[c] \notin {"none", "ok", "failed"}
       => packet[Key(c)].status = "none"
  /\ Op(c) \in {"claim", "refund"} /\ reply[c] \in {"finished", "expired"}
       => packet[Key(c)].status = reply[c]

(* An answer is true of the committed tables, although it may rest on a    *)
(* read made before other calls committed: "ok" and "already" of an entry  *)
(* in the books, a refusal to create of no packet, "finished" and          *)
(* "expired" of the packet's state.                                        *)
RepliesAreTrue == \A c \in Calls : ReplyIsTrue(c)

(* Every call gets through: the transactions never wait for one another in *)
(* a circle and none leaves a lock behind.                                 *)
EveryCallReturns == <>(\A c \in Calls : pc[c] = "returned")

(* The rows implement the escrow: see Escrow.tla.                          *)
MoneyIsKept ==
  INSTANCE Escrow WITH
    Amounts <- {Amount(c) : c \in Calls} \ {0},
    wallet <- balance,
    pot <- [p \in Packets |-> IF packet[p].status = "active" THEN packet[p].amount ELSE 0],
    owner <- [p \in Packets |-> packet[p].sender],
    paid <- {<<k.key, k.user>> : k \in claims},
    deposited <- {<<o.user, o.key>> : o \in orders}

(* Every COMMIT of a wallet or red packet call is one step of the escrow.  *)
ImplementsEscrow == MoneyIsKept!Spec

(* What the handbook promises of two claims of one user that run at the    *)
(* same time: the second returns the claim of the first.  The code checks  *)
(* the packet's status before the unique key, so after the last share, or  *)
(* after the expiry, it answers "finished" or "expired".                   *)
DuplicateKeepsItsAnswer ==
  \A c \in Calls :
    Op(c) = "claim" /\ reply[c] \in {"finished", "expired"} => ~Claimed(Key(c), User(c))

=============================================================================
