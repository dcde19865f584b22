------------------------- MODULE DeliveryOutboxProofs -------------------------
(***************************************************************************)
(* Proofs about DeliveryOutbox, for every set of workers and rows, every   *)
(* fan-out, attempt limit, batch limit and number of disruptions; and      *)
(* about ConversationList, whose cache the same delivery attempts write,   *)
(* for any messages, attempts, users and changes of membership.            *)
(***************************************************************************)
EXTENDS DeliveryOutbox, ConversationList, TLAPS

USE DeliveryOutboxAssumption

(* A worker has claimed the current row and not yet written the outcome.   *)
Active(w) == pc[w] \in {"deliver", "complete", "reschedule"}

(* The attempts a worker read are a lower bound of the row's attempts, and *)
(* a loaded row exists.                                                    *)
ReadsAreOld ==
  \A w \in Workers : \A e \in batch[w] :
    status[e] # "absent" /\ readAttempts[w][e] <= attempts[e]

(* The generation a worker compares with is at most the claim it made,     *)
(* which is at most the newest claim of the row.                           *)
ClaimsAreOrdered ==
  \A w \in Workers, e \in Events :
    Active(w) /\ Current(w, e)
      => Generation(w, e) <= claimNo[w] /\ claimNo[w] <= attempts[e]

(* What a worker has still to deliver and what was delivered make up the   *)
(* whole fan-out of the row.                                               *)
Covered(w, e) ==
  /\ pc[w] = "deliver" => /\ left[w] \subseteq SinksOf[e]
                          /\ SinksOf[e] \subseteq delivered[e] \cup left[w]
  /\ pc[w] = "complete" => SinksOf[e] \subseteq delivered[e]

FanOutIsCovered ==
  \A w \in Workers, e \in Events : Current(w, e) => Covered(w, e)

IInv ==
  /\ TypeOK
  /\ ReadsAreOld
  /\ ClaimsAreOrdered
  /\ FanOutIsCovered
  /\ DeadAfterMaxAttempts

-----------------------------------------------------------------------------
(* A worker has one current row.                                           *)
LEMMA CurrentIsUnique ==
  ASSUME TypeOK, NEW w \in Workers, NEW e \in Events, NEW f \in Events,
         Current(w, e), Current(w, f)
  PROVE  e = f
BY DEF Current, TypeOK

(* Initially every variable has its type.                                  *)
LEMMA InitTypeOK == Init => TypeOK
BY DEF Init, TypeOK, Statuses, Steps

(* Every step keeps the types.                                             *)
LEMMA StepTypeOK == TypeOK /\ [Next]_vars => TypeOK'
<1> SUFFICES ASSUME TypeOK, [Next]_vars PROVE TypeOK'
  OBVIOUS
<1> USE DEF TypeOK, Statuses, Steps
<1>1. ASSUME NEW e \in Events, Enqueue(e) PROVE TypeOK'
  BY <1>1 DEF Enqueue, workerVars
<1>2. ASSUME NEW e \in Events, BecomeDue(e) PROVE TypeOK'
  BY <1>2 DEF BecomeDue, workerVars
<1>3. ASSUME NEW e \in Events, Stall(e) PROVE TypeOK'
  BY <1>3 DEF Stall, Disrupt, workerVars
<1>4. ASSUME NEW w \in Workers, NEW S \in SUBSET Events, Load(w, S) PROVE TypeOK'
  <2>1. readAttempts' \in [Workers -> [Events -> Nat]]
    BY <1>4 DEF Load
  <2>2. QED
    BY <1>4, <2>1 DEF Load, rowVars
<1>5. ASSUME NEW w \in Workers, NEW e \in Events, Claim(w, e) PROVE TypeOK'
  BY <1>5 DEF Claim
<1>6. ASSUME NEW w \in Workers, NEW e \in Events, ClaimMissed(w, e) PROVE TypeOK'
  BY <1>6 DEF ClaimMissed, NextEvent, rowVars
<1>7. ASSUME NEW w \in Workers, NEW e \in Events, Deliver(w, e) PROVE TypeOK'
  BY <1>7 DEF Deliver, rowVars
<1>8. ASSUME NEW w \in Workers, NEW e \in Events, Delivered(w, e) PROVE TypeOK'
  BY <1>8 DEF Delivered, rowVars
<1>9. ASSUME NEW w \in Workers, NEW e \in Events, DeliverFails(w, e) PROVE TypeOK'
  BY <1>9 DEF DeliverFails, rowVars
<1>10. ASSUME NEW w \in Workers, NEW e \in Events, Reschedule(w, e) PROVE TypeOK'
  BY <1>10 DEF Reschedule, Outcome, NextEvent
<1>11. ASSUME NEW w \in Workers, NEW e \in Events, Complete(w, e) PROVE TypeOK'
  BY <1>11 DEF Complete, NextEvent
<1>12. ASSUME NEW w \in Workers, NEW e \in Events, LeaseLost(w, e) PROVE TypeOK'
  BY <1>12 DEF LeaseLost, Abandon, rowVars
<1>13. ASSUME NEW w \in Workers, Crash(w) PROVE TypeOK'
  BY <1>13 DEF Crash, Abandon, Disrupt, rowVars
<1>14. CASE UNCHANGED vars
  BY <1>14 DEF vars, rowVars, workerVars
<1>15. ASSUME NEW w \in Workers, LoadBatch(w) PROVE TypeOK'
  BY <1>15, <1>4 DEF LoadBatch
<1>16. ASSUME NEW w \in Workers, NEW e \in Events, LoadMessage(w, e) PROVE TypeOK'
  BY <1>16, <1>4 DEF LoadMessage
<1>17. QED
  BY <1>1, <1>2, <1>3, <1>5, <1>6, <1>7, <1>8, <1>9, <1>10, <1>11, <1>12,
     <1>13, <1>14, <1>15, <1>16 DEF Next, Work

(* The state variables keep their types (TypeOK) in every behaviour.       *)
THEOREM TypeCorrect == Spec => []TypeOK
BY InitTypeOK, StepTypeOK, PTL DEF Spec

-----------------------------------------------------------------------------
(* A claim only raises attempts; a load reads the current value.            *)
LEMMA StepReadsAreOld ==
  TypeOK /\ TypeOK' /\ ReadsAreOld /\ [Next]_vars => ReadsAreOld'
<1> SUFFICES ASSUME TypeOK, TypeOK', ReadsAreOld, [Next]_vars PROVE ReadsAreOld'
  OBVIOUS
<1> USE DEF TypeOK, ReadsAreOld
<1>1. ASSUME NEW e \in Events, Enqueue(e) PROVE ReadsAreOld'
  BY <1>1 DEF Enqueue, workerVars
<1>2. ASSUME NEW e \in Events, BecomeDue(e) PROVE ReadsAreOld'
  BY <1>2 DEF BecomeDue, workerVars
<1>3. ASSUME NEW e \in Events, Stall(e) PROVE ReadsAreOld'
  BY <1>3 DEF Stall, workerVars
<1>4. ASSUME NEW w \in Workers, LoadBatch(w) PROVE ReadsAreOld'
  BY <1>4 DEF LoadBatch, Load, Ready, rowVars
<1>5. ASSUME NEW w \in Workers, NEW e \in Events, LoadMessage(w, e) PROVE ReadsAreOld'
  BY <1>5 DEF LoadMessage, Load, Ready, rowVars
<1>6. ASSUME NEW w \in Workers, NEW e \in Events, Claim(w, e) PROVE ReadsAreOld'
  BY <1>6 DEF Claim, Ready
<1>7. ASSUME NEW w \in Workers, NEW e \in Events, ClaimMissed(w, e) PROVE ReadsAreOld'
  BY <1>7 DEF ClaimMissed, NextEvent, rowVars
<1>8. ASSUME NEW w \in Workers, NEW e \in Events, Deliver(w, e) PROVE ReadsAreOld'
  BY <1>8 DEF Deliver, rowVars
<1>9. ASSUME NEW w \in Workers, NEW e \in Events, Delivered(w, e) PROVE ReadsAreOld'
  BY <1>9 DEF Delivered, rowVars
<1>10. ASSUME NEW w \in Workers, NEW e \in Events, DeliverFails(w, e) PROVE ReadsAreOld'
  BY <1>10 DEF DeliverFails, rowVars
<1>11. ASSUME NEW w \in Workers, NEW e \in Events, Reschedule(w, e) PROVE ReadsAreOld'
  BY <1>11 DEF Reschedule, Outcome, NextEvent
<1>12. ASSUME NEW w \in Workers, NEW e \in Events, Complete(w, e) PROVE ReadsAreOld'
  BY <1>12 DEF Complete, NextEvent
<1>13. ASSUME NEW w \in Workers, NEW e \in Events, LeaseLost(w, e) PROVE ReadsAreOld'
  BY <1>13 DEF LeaseLost, Abandon, rowVars
<1>14. ASSUME NEW w \in Workers, Crash(w) PROVE ReadsAreOld'
  BY <1>14 DEF Crash, Abandon, rowVars
<1>15. CASE UNCHANGED vars
  BY <1>15 DEF vars, rowVars, workerVars
<1>16. QED
  BY <1>1, <1>2, <1>3, <1>4, <1>5, <1>6, <1>7, <1>8, <1>9, <1>10, <1>11, <1>12, <1>13, <1>14, <1>15 DEF Next, Work

(* Only Claim sets claimNo, to the new value of attempts, which is above    *)
(* what the worker read.                                                   *)
LEMMA StepClaimsAreOrdered ==
  TypeOK /\ TypeOK' /\ ReadsAreOld /\ ClaimsAreOrdered /\ [Next]_vars => ClaimsAreOrdered'
<1> SUFFICES ASSUME TypeOK, TypeOK', ReadsAreOld, ClaimsAreOrdered, [Next]_vars PROVE ClaimsAreOrdered'
  OBVIOUS
<1> USE DEF TypeOK, ClaimsAreOrdered, ReadsAreOld, Active, Current, Generation
<1>1. ASSUME NEW e \in Events, Enqueue(e) PROVE ClaimsAreOrdered'
  BY <1>1 DEF Enqueue, workerVars
<1>2. ASSUME NEW e \in Events, BecomeDue(e) PROVE ClaimsAreOrdered'
  BY <1>2 DEF BecomeDue, workerVars
<1>3. ASSUME NEW e \in Events, Stall(e) PROVE ClaimsAreOrdered'
  BY <1>3 DEF Stall, workerVars
<1>4. ASSUME NEW w \in Workers, LoadBatch(w) PROVE ClaimsAreOrdered'
  BY <1>4 DEF LoadBatch, Load, Ready, rowVars
<1>5. ASSUME NEW w \in Workers, NEW e \in Events, LoadMessage(w, e) PROVE ClaimsAreOrdered'
  BY <1>5 DEF LoadMessage, Load, Ready, rowVars
<1>6. ASSUME NEW w \in Workers, NEW e \in Events, Claim(w, e) PROVE ClaimsAreOrdered'
  BY <1>6 DEF Claim, Ready
<1>7. ASSUME NEW w \in Workers, NEW e \in Events, ClaimMissed(w, e) PROVE ClaimsAreOrdered'
  BY <1>7 DEF ClaimMissed, NextEvent, rowVars
<1>8. ASSUME NEW w \in Workers, NEW e \in Events, Deliver(w, e) PROVE ClaimsAreOrdered'
  BY <1>8 DEF Deliver, rowVars
<1>9. ASSUME NEW w \in Workers, NEW e \in Events, Delivered(w, e) PROVE ClaimsAreOrdered'
  BY <1>9 DEF Delivered, rowVars
<1>10. ASSUME NEW w \in Workers, NEW e \in Events, DeliverFails(w, e) PROVE ClaimsAreOrdered'
  BY <1>10 DEF DeliverFails, rowVars
<1>11. ASSUME NEW w \in Workers, NEW e \in Events, Reschedule(w, e) PROVE ClaimsAreOrdered'
  BY <1>11 DEF Reschedule, Outcome, NextEvent
<1>12. ASSUME NEW w \in Workers, NEW e \in Events, Complete(w, e) PROVE ClaimsAreOrdered'
  BY <1>12 DEF Complete, NextEvent
<1>13. ASSUME NEW w \in Workers, NEW e \in Events, LeaseLost(w, e) PROVE ClaimsAreOrdered'
  BY <1>13 DEF LeaseLost, Abandon, rowVars
<1>14. ASSUME NEW w \in Workers, Crash(w) PROVE ClaimsAreOrdered'
  BY <1>14 DEF Crash, Abandon, rowVars
<1>15. CASE UNCHANGED vars
  BY <1>15 DEF vars, rowVars, workerVars
<1>16. QED
  BY <1>1, <1>2, <1>3, <1>4, <1>5, <1>6, <1>7, <1>8, <1>9, <1>10, <1>11, <1>12, <1>13, <1>14, <1>15 DEF Next, Work

(* Deliveries move sinks from left to delivered; nothing undoes them.       *)
LEMMA StepFanOutIsCovered ==
  TypeOK /\ TypeOK' /\ FanOutIsCovered /\ [Next]_vars => FanOutIsCovered'
<1> SUFFICES ASSUME TypeOK, TypeOK', FanOutIsCovered, [Next]_vars PROVE FanOutIsCovered'
  OBVIOUS
<1> USE DEF FanOutIsCovered
<1>1. ASSUME NEW e \in Events, Enqueue(e) PROVE FanOutIsCovered'
  BY <1>1 DEF TypeOK, Covered, Current, Enqueue, workerVars
<1>2. ASSUME NEW e \in Events, BecomeDue(e) PROVE FanOutIsCovered'
  BY <1>2 DEF TypeOK, Covered, Current, BecomeDue, workerVars
<1>3. ASSUME NEW e \in Events, Stall(e) PROVE FanOutIsCovered'
  BY <1>3 DEF TypeOK, Covered, Current, Stall, workerVars
<1>4. ASSUME NEW w \in Workers, LoadBatch(w) PROVE FanOutIsCovered'
  BY <1>4 DEF TypeOK, Covered, Current, LoadBatch, Load, Ready, rowVars
<1>5. ASSUME NEW w \in Workers, NEW e \in Events, LoadMessage(w, e) PROVE FanOutIsCovered'
  BY <1>5 DEF TypeOK, Covered, Current, LoadMessage, Load, Ready, rowVars
<1>6. ASSUME NEW w \in Workers, NEW e \in Events, Claim(w, e) PROVE FanOutIsCovered'
  <2> SUFFICES ASSUME NEW v \in Workers, NEW f \in Events, Current(v, f)'
               PROVE  Covered(v, f)'
    BY DEF Covered
  <2>1. batch' = batch /\ Current(v, f)
    BY <1>6 DEF Claim, Current
  <2>2. CASE v = w
    <3>1. f = e
      BY <1>6, <2>1, <2>2, CurrentIsUnique DEF Claim
    <3>2. QED
      BY <1>6, <2>1, <2>2, <3>1 DEF Claim, Covered, TypeOK
  <2>3. CASE v # w
    BY <1>6, <2>1, <2>3 DEF Claim, Covered, TypeOK
  <2>4. QED
    BY <2>2, <2>3
<1>7. ASSUME NEW w \in Workers, NEW e \in Events, ClaimMissed(w, e) PROVE FanOutIsCovered'
  BY <1>7 DEF TypeOK, Covered, Current, ClaimMissed, NextEvent, rowVars
<1>8. ASSUME NEW w \in Workers, NEW e \in Events, Deliver(w, e) PROVE FanOutIsCovered'
  <2> SUFFICES ASSUME NEW v \in Workers, NEW f \in Events, Current(v, f)'
               PROVE  Covered(v, f)'
    BY DEF Covered
  <2>1. batch' = batch /\ Current(v, f)
    BY <1>8 DEF Deliver, rowVars, Current
  <2>2. CASE v = w
    <3>1. f = e
      BY <1>8, <2>1, <2>2, CurrentIsUnique DEF Deliver, rowVars
    <3>2. QED
      BY <1>8, <2>1, <2>2, <3>1 DEF Deliver, rowVars, Covered, TypeOK
  <2>3. CASE v # w
    <3>1. pc'[v] = pc[v] /\ left'[v] = left[v]
      BY <1>8, <2>3 DEF Deliver, rowVars, TypeOK
    <3>2. delivered[f] \subseteq delivered'[f]
      BY <1>8 DEF Deliver, rowVars, TypeOK
    <3>3. Covered(v, f)
      BY <2>1
    <3>4. QED
      BY <3>1, <3>2, <3>3 DEF Covered
  <2>4. QED
    BY <2>2, <2>3
<1>9. ASSUME NEW w \in Workers, NEW e \in Events, Delivered(w, e) PROVE FanOutIsCovered'
  BY <1>9 DEF TypeOK, Covered, Current, Delivered, rowVars
<1>10. ASSUME NEW w \in Workers, NEW e \in Events, DeliverFails(w, e) PROVE FanOutIsCovered'
  <2> SUFFICES ASSUME NEW v \in Workers, NEW f \in Events, Current(v, f)'
               PROVE  Covered(v, f)'
    BY DEF Covered
  <2>1. batch' = batch /\ Current(v, f)
    BY <1>10 DEF DeliverFails, rowVars, Current
  <2>2. CASE v = w
    <3>1. f = e
      BY <1>10, <2>1, <2>2, CurrentIsUnique DEF DeliverFails, rowVars
    <3>2. QED
      BY <1>10, <2>1, <2>2, <3>1 DEF DeliverFails, rowVars, Covered, TypeOK
  <2>3. CASE v # w
    <3>1. pc'[v] = pc[v] /\ left'[v] = left[v]
      BY <1>10, <2>3 DEF DeliverFails, rowVars, TypeOK
    <3>2. delivered[f] \subseteq delivered'[f]
      BY <1>10 DEF DeliverFails, rowVars, TypeOK
    <3>3. Covered(v, f)
      BY <2>1
    <3>4. QED
      BY <3>1, <3>2, <3>3 DEF Covered
  <2>4. QED
    BY <2>2, <2>3
<1>11. ASSUME NEW w \in Workers, NEW e \in Events, Reschedule(w, e) PROVE FanOutIsCovered'
  BY <1>11 DEF TypeOK, Covered, Current, Reschedule, Outcome, NextEvent
<1>12. ASSUME NEW w \in Workers, NEW e \in Events, Complete(w, e) PROVE FanOutIsCovered'
  BY <1>12 DEF TypeOK, Covered, Current, Complete, NextEvent
<1>13. ASSUME NEW w \in Workers, NEW e \in Events, LeaseLost(w, e) PROVE FanOutIsCovered'
  BY <1>13 DEF TypeOK, Covered, Current, LeaseLost, Abandon, rowVars
<1>14. ASSUME NEW w \in Workers, Crash(w) PROVE FanOutIsCovered'
  BY <1>14 DEF TypeOK, Covered, Current, Crash, Abandon, rowVars
<1>15. CASE UNCHANGED vars
  BY <1>15 DEF Covered, Current, vars, rowVars, workerVars
<1>16. QED
  BY <1>1, <1>2, <1>3, <1>4, <1>5, <1>6, <1>7, <1>8, <1>9, <1>10, <1>11, <1>12, <1>13, <1>14, <1>15 DEF Next, Work

(* Only Reschedule buries a row, under the generation its guard equates     *)
(* with attempts.                                                          *)
LEMMA StepDead ==
  TypeOK /\ TypeOK' /\ DeadAfterMaxAttempts /\ [Next]_vars => DeadAfterMaxAttempts'
<1> SUFFICES ASSUME TypeOK, TypeOK', DeadAfterMaxAttempts, [Next]_vars PROVE DeadAfterMaxAttempts'
  OBVIOUS
<1> USE DEF TypeOK, DeadAfterMaxAttempts, HoldsLease, Generation
<1>1. ASSUME NEW e \in Events, Enqueue(e) PROVE DeadAfterMaxAttempts'
  BY <1>1 DEF Enqueue, workerVars
<1>2. ASSUME NEW e \in Events, BecomeDue(e) PROVE DeadAfterMaxAttempts'
  BY <1>2 DEF BecomeDue, workerVars
<1>3. ASSUME NEW e \in Events, Stall(e) PROVE DeadAfterMaxAttempts'
  BY <1>3 DEF Stall, workerVars
<1>4. ASSUME NEW w \in Workers, LoadBatch(w) PROVE DeadAfterMaxAttempts'
  BY <1>4 DEF LoadBatch, Load, Ready, rowVars
<1>5. ASSUME NEW w \in Workers, NEW e \in Events, LoadMessage(w, e) PROVE DeadAfterMaxAttempts'
  BY <1>5 DEF LoadMessage, Load, Ready, rowVars
<1>6. ASSUME NEW w \in Workers, NEW e \in Events, Claim(w, e) PROVE DeadAfterMaxAttempts'
  BY <1>6 DEF Claim, Ready
<1>7. ASSUME NEW w \in Workers, NEW e \in Events, ClaimMissed(w, e) PROVE DeadAfterMaxAttempts'
  BY <1>7 DEF ClaimMissed, NextEvent, rowVars
<1>8. ASSUME NEW w \in Workers, NEW e \in Events, Deliver(w, e) PROVE DeadAfterMaxAttempts'
  BY <1>8 DEF Deliver, rowVars
<1>9. ASSUME NEW w \in Workers, NEW e \in Events, Delivered(w, e) PROVE DeadAfterMaxAttempts'
  BY <1>9 DEF Delivered, rowVars
<1>10. ASSUME NEW w \in Workers, NEW e \in Events, DeliverFails(w, e) PROVE DeadAfterMaxAttempts'
  BY <1>10 DEF DeliverFails, rowVars
<1>11. ASSUME NEW w \in Workers, NEW e \in Events, Reschedule(w, e) PROVE DeadAfterMaxAttempts'
  BY <1>11 DEF Reschedule, Outcome, NextEvent
<1>12. ASSUME NEW w \in Workers, NEW e \in Events, Complete(w, e) PROVE DeadAfterMaxAttempts'
  BY <1>12 DEF Complete, NextEvent
<1>13. ASSUME NEW w \in Workers, NEW e \in Events, LeaseLost(w, e) PROVE DeadAfterMaxAttempts'
  BY <1>13 DEF LeaseLost, Abandon, rowVars
<1>14. ASSUME NEW w \in Workers, Crash(w) PROVE DeadAfterMaxAttempts'
  BY <1>14 DEF Crash, Abandon, rowVars
<1>15. CASE UNCHANGED vars
  BY <1>15 DEF vars, rowVars, workerVars
<1>16. QED
  BY <1>1, <1>2, <1>3, <1>4, <1>5, <1>6, <1>7, <1>8, <1>9, <1>10, <1>11, <1>12, <1>13, <1>14, <1>15 DEF Next, Work

-----------------------------------------------------------------------------
LEMMA InitIInv == Init => IInv
<1> SUFFICES ASSUME Init PROVE IInv
  OBVIOUS
<1>1. TypeOK
  BY InitTypeOK
<1>2. ReadsAreOld /\ ClaimsAreOrdered /\ FanOutIsCovered /\ DeadAfterMaxAttempts
  BY DEF Init, ReadsAreOld, ClaimsAreOrdered, FanOutIsCovered, Active, Current,
         DeadAfterMaxAttempts
<1>3. QED
  BY <1>1, <1>2 DEF IInv

LEMMA StepIInv == IInv /\ [Next]_vars => IInv'
BY StepTypeOK, StepReadsAreOld, StepClaimsAreOrdered, StepFanOutIsCovered, StepDead
   DEF IInv

(* The strengthening holds in every reachable state.                       *)
LEMMA Invariance == Spec => []IInv
BY InitIInv, StepIInv, PTL DEF Spec

(* A row is given up only after MaxAttempts claims (the dead branch of     *)
(* processDeliveryOutboxEvent).                                            *)
THEOREM DeadIsLate == Spec => []DeadAfterMaxAttempts
<1>1. IInv => DeadAfterMaxAttempts
  BY DEF IInv
<1>2. QED
  BY <1>1, Invariance, PTL

-----------------------------------------------------------------------------
(* A row leaves processing only in the two steps that compare generations. *)
LEMMA OnlyOutcomesSettle ==
  ASSUME TypeOK, Next, NEW e \in Events,
         status[e] = "processing", status'[e] # "processing"
  PROVE  \E w \in Workers : Reschedule(w, e) \/ Complete(w, e)
<1> USE DEF TypeOK
<1>1. ASSUME NEW f \in Events, Enqueue(f) PROVE FALSE
  BY <1>1 DEF Enqueue
<1>2. ASSUME NEW f \in Events, BecomeDue(f) PROVE FALSE
  BY <1>2 DEF BecomeDue
<1>3. ASSUME NEW f \in Events, Stall(f) PROVE FALSE
  BY <1>3 DEF Stall
<1>4. ASSUME NEW v \in Workers, LoadBatch(v) PROVE FALSE
  BY <1>4 DEF LoadBatch, Load, rowVars
<1>5. ASSUME NEW v \in Workers, NEW f \in Events, LoadMessage(v, f) PROVE FALSE
  BY <1>5 DEF LoadMessage, Load, rowVars
<1>6. ASSUME NEW v \in Workers, NEW f \in Events, Claim(v, f) PROVE FALSE
  BY <1>6 DEF Claim
<1>7. ASSUME NEW v \in Workers, NEW f \in Events, ClaimMissed(v, f) PROVE FALSE
  BY <1>7 DEF ClaimMissed, rowVars
<1>8. ASSUME NEW v \in Workers, NEW f \in Events, Deliver(v, f) PROVE FALSE
  BY <1>8 DEF Deliver, rowVars
<1>9. ASSUME NEW v \in Workers, NEW f \in Events, Delivered(v, f) PROVE FALSE
  BY <1>9 DEF Delivered, rowVars
<1>10. ASSUME NEW v \in Workers, NEW f \in Events, DeliverFails(v, f) PROVE FALSE
  BY <1>10 DEF DeliverFails, rowVars
<1>11. ASSUME NEW v \in Workers, NEW f \in Events, LeaseLost(v, f) PROVE FALSE
  BY <1>11 DEF LeaseLost, rowVars
<1>12. ASSUME NEW v \in Workers, Crash(v) PROVE FALSE
  BY <1>12 DEF Crash, rowVars
<1>13. ASSUME NEW v \in Workers, NEW f \in Events, Reschedule(v, f) \/ Complete(v, f)
       PROVE f = e
  BY <1>13 DEF Reschedule, Complete
<1>14. QED
  BY <1>1, <1>2, <1>3, <1>4, <1>5, <1>6, <1>7, <1>8, <1>9, <1>10, <1>11, <1>12, <1>13 DEF Next, Work

(* An older worker never finishes or reschedules a newer claim: the        *)
(* generation it compares is a lower bound of its own claim, which is a    *)
(* lower bound of the newest, so equality means its claim is the newest.   *)
THEOREM NewestClaimWins == Spec => NewestClaimSettles
<1>1. ASSUME IInv, [Next]_vars PROVE [SettledByNewestClaim]_vars
  <2> SUFFICES ASSUME Next, NEW e \in Events,
                      status[e] = "processing", status'[e] # "processing"
               PROVE  \E w \in Workers : /\ pc[w] \in {"complete", "reschedule"}
                                         /\ Current(w, e)
                                         /\ claimNo[w] = attempts[e]
                                         /\ pc'[w] # pc[w]
    BY <1>1 DEF SettledByNewestClaim
  <2>1. TypeOK
    BY <1>1 DEF IInv
  <2>2. PICK w \in Workers : Reschedule(w, e) \/ Complete(w, e)
    BY <2>1, OnlyOutcomesSettle
  <2>3. /\ pc[w] \in {"complete", "reschedule"}
        /\ Current(w, e)
        /\ attempts[e] = Generation(w, e)
    BY <2>2 DEF Reschedule, Complete, HoldsLease
  <2>4. pc'[w] # pc[w]
    BY <2>1, <2>2, <2>3 DEF Reschedule, Complete, NextEvent, TypeOK
  <2>5. Generation(w, e) <= claimNo[w] /\ claimNo[w] <= attempts[e]
    BY <1>1, <2>3 DEF IInv, ClaimsAreOrdered, Active
  <2>6. claimNo[w] = attempts[e]
    BY <2>1, <2>3, <2>5 DEF TypeOK, Generation
  <2>7. QED
    BY <2>3, <2>4, <2>6
<1>2. QED
  BY <1>1, Invariance, PTL DEF Spec, NewestClaimSettles

-----------------------------------------------------------------------------
AbsPhase == [e \in Events |-> Phase(e)]

(* Steps that touch neither a status nor the delivered sets stutter.       *)
LEMMA QuietStep ==
  ASSUME UNCHANGED <<status, delivered>>
  PROVE  UNCHANGED Promise!vars
BY DEF Promise!vars, Phase

(* One status changes to st; the abstract phase follows.                   *)
LEMMA OnePhase ==
  ASSUME TypeOK, NEW e \in Events, NEW st \in Statuses,
         status' = [status EXCEPT ![e] = st]
  PROVE  AbsPhase' = [AbsPhase EXCEPT
           ![e] = IF st \in {"pending", "processing"} THEN "owed" ELSE st]
BY DEF AbsPhase, Phase, TypeOK, Statuses

(* The outbox keeps the promise of AtLeastOnce: every step is one of its   *)
(* steps or a stutter.                                                     *)
LEMMA StepKeepsPromise ==
  IInv /\ [Next]_vars => [Promise!Next]_(Promise!vars)
<1> SUFFICES ASSUME IInv, [Next]_vars PROVE [Promise!Next]_(Promise!vars)
  OBVIOUS
<1>0. TypeOK
  BY DEF IInv
<1>1. ASSUME NEW e \in Events, Enqueue(e) PROVE Promise!Accept(e)
  <2>1. AbsPhase' = [AbsPhase EXCEPT ![e] = "owed"]
    BY <1>0, <1>1, OnePhase DEF Enqueue, Statuses
  <2>2. AbsPhase[e] = "absent"
    BY <1>1 DEF Enqueue, AbsPhase, Phase
  <2>3. QED
    BY <1>1, <2>1, <2>2 DEF Enqueue, Promise!Accept, AbsPhase
<1>2. ASSUME NEW w \in Workers, NEW e \in Events, Claim(w, e)
      PROVE  UNCHANGED Promise!vars
  <2>1. AbsPhase' = [AbsPhase EXCEPT ![e] = "owed"]
    BY <1>0, <1>2, OnePhase DEF Claim, Statuses
  <2>2. AbsPhase[e] = "owed"
    BY <1>2 DEF Claim, Ready, AbsPhase, Phase
  <2>3. AbsPhase' = AbsPhase
    BY <2>1, <2>2 DEF AbsPhase
  <2>4. QED
    BY <1>2, <2>3 DEF Claim, Promise!vars, AbsPhase
<1>3. ASSUME NEW w \in Workers, NEW e \in Events, NEW s \in left[w],
             pc[w] = "deliver", Current(w, e), UNCHANGED status,
             delivered' = [delivered EXCEPT ![e] = @ \cup {s}]
      PROVE  \E t \in Sinks : Promise!Serve(e, t)
  <2>1. s \in SinksOf[e] /\ s \in Sinks
    BY <1>0, <1>3 DEF IInv, FanOutIsCovered, Covered, TypeOK
  <2>2. AbsPhase[e] # "absent"
    BY <1>3 DEF IInv, ReadsAreOld, Current, AbsPhase, Phase
  <2>3. Promise!Serve(e, s)
    BY <1>3, <2>1, <2>2 DEF Promise!Serve, AbsPhase, Phase
  <2>4. QED
    BY <2>1, <2>3
<1>4. ASSUME NEW w \in Workers, NEW e \in Events, Deliver(w, e)
      PROVE  \E t \in Sinks : Promise!Serve(e, t)
  BY <1>3, <1>4 DEF Deliver, rowVars
<1>5. ASSUME NEW w \in Workers, NEW e \in Events, DeliverFails(w, e)
      PROVE  [\E t \in Sinks : Promise!Serve(e, t)]_(Promise!vars)
  <2>1. CASE UNCHANGED delivered
    BY <1>5, <2>1, QuietStep DEF DeliverFails, rowVars
  <2>2. CASE \E s \in left[w] : delivered' = [delivered EXCEPT ![e] = @ \cup {s}]
    BY <1>3, <1>5, <2>2 DEF DeliverFails, rowVars
  <2>3. QED
    BY <1>5, <2>1, <2>2 DEF DeliverFails
<1>6. ASSUME NEW w \in Workers, NEW e \in Events, Reschedule(w, e)
      PROVE  Promise!GiveUp(e) \/ UNCHANGED Promise!vars
  <2>1. AbsPhase[e] = "owed"
    BY <1>6 DEF Reschedule, HoldsLease, AbsPhase, Phase
  <2>2. CASE Outcome(w, e) = "dead"
    <3>1. AbsPhase' = [AbsPhase EXCEPT ![e] = "dead"]
      BY <1>0, <1>6, <2>2, OnePhase DEF Reschedule, Statuses
    <3>2. QED
      BY <1>6, <2>1, <3>1 DEF Reschedule, Promise!GiveUp, AbsPhase
  <2>3. CASE Outcome(w, e) = "pending"
    <3>1. AbsPhase' = [AbsPhase EXCEPT ![e] = "owed"]
      BY <1>0, <1>6, <2>3, OnePhase DEF Reschedule, Statuses
    <3>2. AbsPhase' = AbsPhase
      BY <2>1, <3>1 DEF AbsPhase
    <3>3. QED
      BY <1>6, <3>2 DEF Reschedule, Promise!vars, AbsPhase
  <2>4. QED
    BY <2>2, <2>3 DEF Outcome
<1>7. ASSUME NEW w \in Workers, NEW e \in Events, Complete(w, e)
      PROVE  Promise!Complete(e)
  <2>1. AbsPhase[e] = "owed"
    BY <1>7 DEF Complete, HoldsLease, AbsPhase, Phase
  <2>2. AbsPhase' = [AbsPhase EXCEPT ![e] = "done"]
    BY <1>0, <1>7, OnePhase DEF Complete, Statuses
  <2>3. SinksOf[e] \subseteq delivered[e]
    BY <1>7 DEF IInv, FanOutIsCovered, Covered, Complete
  <2>4. QED
    BY <1>7, <2>1, <2>2, <2>3 DEF Complete, Promise!Complete, AbsPhase
<1>8. ASSUME NEW w \in Workers, NEW e \in Events,
             \/ ClaimMissed(w, e)
             \/ Delivered(w, e)
             \/ LeaseLost(w, e)
             \/ LoadMessage(w, e)
      PROVE  UNCHANGED Promise!vars
  BY <1>8, QuietStep DEF ClaimMissed, Delivered, LeaseLost, LoadMessage, Load, rowVars
<1>9. ASSUME NEW w \in Workers, LoadBatch(w) \/ Crash(w) PROVE UNCHANGED Promise!vars
  BY <1>9, QuietStep DEF LoadBatch, Load, Crash, rowVars
<1>10. ASSUME NEW e \in Events, BecomeDue(e) \/ Stall(e) PROVE UNCHANGED Promise!vars
  BY <1>10, QuietStep DEF BecomeDue, Stall
<1>11. CASE UNCHANGED vars
  BY <1>11, QuietStep DEF vars, rowVars
<1>12. QED
  BY <1>1, <1>2, <1>4, <1>5, <1>6, <1>7, <1>8, <1>9, <1>10, <1>11
     DEF Next, Work, Promise!Next

(* Every behaviour of the outbox is a behaviour of the at-least-once       *)
(* promise: done means delivered to every sink, settled rows stay settled. *)
THEOREM KeepsPromise == Spec => ImplementsAtLeastOnce
<1>1. Init => Promise!Init
  BY DEF Init, Promise!Init, Phase
<1>2. QED
  BY <1>1, StepKeepsPromise, Invariance, PTL
     DEF Spec, ImplementsAtLeastOnce, Promise!Spec

-----------------------------------------------------------------------------
(* ConversationList.                                                       *)
USE ConversationListAssumption

(* What updateConversationLastScript and markConversationReadScript compute *)
(* is the larger of two numbers.                                           *)
LEMMA MaxOfTwo ==
  ASSUME NEW a \in Int, NEW b \in Int
  PROVE  Max({a, b}) = IF a >= b THEN a ELSE b
<1> DEFINE m == IF a >= b THEN a ELSE b
<1>1. m \in {a, b} /\ \A y \in {a, b} : m >= y
  OBVIOUS
<1>2. \A x \in {a, b} : (\A y \in {a, b} : x >= y) => x = m
  OBVIOUS
<1>3. Max({a, b}) = CHOOSE x \in {a, b} : \A y \in {a, b} : x >= y
  BY DEF Max
<1>. HIDE DEF m
<1>4. Max({a, b}) = m
  BY <1>1, <1>2, <1>3
<1>5. QED
  BY <1>4 DEF m

(* The tables and keys start with values of their types.                   *)
LEMMA ListInitTypes == ListInit => ListTypeOK
<1> SUFFICES ASSUME ListInit PROVE ListTypeOK
  OBVIOUS
<1>1. dbRead \in [Conversations -> [Users -> Nat \cup {NoRow}]]
  BY DEF ListInit
<1>2. snap \in [Users -> [Conversations -> Row]]
  BY DEF ListInit, NoRows, Row
<1>3. read \in [Users -> [Conversations -> Nat]]
  BY DEF ListInit
<1>4. QED
  BY <1>1, <1>2, <1>3 DEF ListInit, ListTypeOK

(* The conversation outbox keeps the types of MySQL's summary.             *)
LEMMA FoldTypes ==
  ASSUME ListTypeOK, NEW m \in Messages, Fold(m)
  PROVE  /\ dbLast' \in [Conversations -> Nat]
         /\ dbRead' \in [Conversations -> [Users -> Nat \cup {NoRow}]]
<1> DEFINE c == ConvOf[m]
           row == [u \in Users |->
                     Max({dbRead[c][u], IF u = FromOf[m] THEN SeqNo[m] ELSE 0})]
<1>1. c \in Conversations /\ SeqNo[m] \in Nat /\ dbLast[c] \in Nat
  BY DEF ListTypeOK
<1>2. Max({dbLast[c], SeqNo[m]}) \in Nat
  BY <1>1, MaxOfTwo
<1>3. dbLast' \in [Conversations -> Nat]
  BY <1>1, <1>2 DEF Fold, ListTypeOK
<1>4. row \in [Users -> Nat \cup {NoRow}]
  <2>1. SUFFICES ASSUME NEW u \in Users PROVE row[u] \in Nat \cup {NoRow}
    OBVIOUS
  <2>2. dbRead[c][u] \in Nat \cup {NoRow}
    BY <1>1 DEF ListTypeOK
  <2>3. dbRead[c][u] \in Int
    BY <2>2 DEF NoRow
  <2>4. (IF u = FromOf[m] THEN SeqNo[m] ELSE 0) \in Nat
    BY <1>1
  <2>5. row[u] \in {dbRead[c][u], IF u = FromOf[m] THEN SeqNo[m] ELSE 0}
    BY <2>3, <2>4, MaxOfTwo
  <2>6. QED
    BY <2>2, <2>4, <2>5
<1>5. dbRead' = dbRead \/ dbRead' = [dbRead EXCEPT ![c] = row]
  BY DEF Fold
<1>6. dbRead' \in [Conversations -> [Users -> Nat \cup {NoRow}]]
  BY <1>1, <1>4, <1>5 DEF ListTypeOK
<1>7. QED
  BY <1>3, <1>6

(* What a login finds of its user in MySQL are rows.                       *)
LEMMA ReadMySQLTypes ==
  ASSUME ListTypeOK, NEW u \in Users, ReadMySQL(u)
  PROVE  snap' \in [Users -> [Conversations -> Row]]
<1> DEFINE rows == {c \in Conversations : dbRead[c][u] # NoRow}
           seen == [c \in Conversations |->
                      IF c \in rows THEN [last |-> dbLast[c], read |-> dbRead[c][u]]
                      ELSE NoRows[c]]
<1>1. seen \in [Conversations -> Row]
  <2>1. SUFFICES ASSUME NEW c \in Conversations PROVE seen[c] \in Row
    OBVIOUS
  <2>2. dbLast[c] \in Nat /\ dbRead[c][u] \in Nat \cup {NoRow} /\ NoRows[c] \in Row
    BY DEF ListTypeOK, NoRows, Row
  <2>3. CASE c \in rows
    BY <2>2, <2>3 DEF Row
  <2>4. CASE c \notin rows
    BY <2>2, <2>4
  <2>5. QED
    BY <2>3, <2>4
<1>2. snap' = [snap EXCEPT ![u] = seen]
  BY DEF ReadMySQL
<1>3. QED
  BY <1>1, <1>2 DEF ListTypeOK

(* What it then writes to the cache are sequence numbers.                  *)
LEMMA FillTypes ==
  ASSUME ListTypeOK, NEW u \in Users, Fill(u)
  PROVE  /\ index' \in [Users -> SUBSET Conversations]
         /\ last' \in [Conversations -> Nat \cup {NoKey}]
         /\ read' \in [Users -> [Conversations -> Nat]]
         /\ snap' \in [Users -> [Conversations -> Row]]
<1> DEFINE ends == [c \in Conversations |->
                      IF c \in found[u] THEN snap[u][c].last ELSE last[c]]
           cursors == [c \in Conversations |->
                         IF c \in found[u] THEN snap[u][c].read ELSE read[u][c]]
<1>1. \A c \in Conversations : snap[u][c].last \in Nat /\ snap[u][c].read \in Nat
  <2>1. \A c \in Conversations : snap[u][c] \in Row
    BY DEF ListTypeOK
  <2>2. QED
    BY <2>1 DEF Row
<1>2. ends \in [Conversations -> Nat \cup {NoKey}]
  BY <1>1 DEF ListTypeOK
<1>3. cursors \in [Conversations -> Nat]
  BY <1>1 DEF ListTypeOK
<1>4. found[u] \in SUBSET Conversations
  BY DEF ListTypeOK
<1>5. CASE UNCHANGED cacheVars
  BY <1>5 DEF Fill, ListTypeOK, cacheVars, NoRows, Row
<1>6. CASE /\ index' = [index EXCEPT ![u] = @ \cup found[u]]
           /\ last' = ends
           /\ read' = [read EXCEPT ![u] = cursors]
  <2>1. index' \in [Users -> SUBSET Conversations]
    BY <1>4, <1>6 DEF ListTypeOK
  <2>2. read' \in [Users -> [Conversations -> Nat]]
    BY <1>3, <1>6 DEF ListTypeOK
  <2>3. snap' \in [Users -> [Conversations -> Row]]
    BY DEF Fill, ListTypeOK, NoRows, Row
  <2>4. QED
    BY <1>2, <1>6, <2>1, <2>2, <2>3
<1>7. QED
  BY <1>5, <1>6 DEF Fill

(* A user's read cursors after the key is gone.                            *)
NoCursors == [c \in Conversations |-> 0]

LEMMA NoCursorsType ==
  NoCursors \in [Conversations -> Nat] /\ \A c \in Conversations : NoCursors[c] = 0
BY DEF NoCursors

(* What the deletion after a membership change does to the cache.          *)
DropCacheStep(u) ==
  \/ index' = index /\ read' = read
  \/ index' = [index EXCEPT ![u] = {}] /\ read' = [read EXCEPT ![u] = NoCursors]

LEMMA DropCacheIsStep ==
  ASSUME NEW u \in Callers, DropCache(u)
  PROVE  DropCacheStep(u)
BY DEF DropCache, DropCacheStep, NoCursors

(* What an expiry does to it.                                              *)
ExpireStep ==
  \/ \E u \in Users : index' = [index EXCEPT ![u] = {}] /\ last' = last /\ read' = read
  \/ \E u \in Users : /\ read' = [read EXCEPT ![u] = NoCursors]
                       /\ index' = index /\ last' = last
  \/ \E c \in Conversations : /\ last' = [last EXCEPT ![c] = NoKey]
                               /\ index' = index /\ read' = read

LEMMA ExpireIsStep ==
  ASSUME Expire
  PROVE  ExpireStep
BY DEF Expire, ExpireStep, NoCursors

(* Every step of a message, a delivery attempt or a login keeps the types. *)
LEMMA ListStepTypes == ListTypeOK /\ [ListNext]_listVars => ListTypeOK'
<1> SUFFICES ASSUME ListTypeOK, [ListNext]_listVars PROVE ListTypeOK'
  OBVIOUS
<1>. USE DEF dbVars, cacheVars, callVars
<1>1. ASSUME NEW m \in Messages, Store(m) PROVE ListTypeOK'
  BY <1>1 DEF Store, ListTypeOK
<1>2. ASSUME NEW m \in Messages, Fold(m) PROVE ListTypeOK'
  BY <1>2, FoldTypes DEF Fold, ListTypeOK
<1>3. ASSUME NEW u \in Callers, NEW c \in Conversations, Leave(u, c) PROVE ListTypeOK'
  <2>1. dbRead' \in [Conversations -> [Users -> Nat \cup {NoRow}]]
    BY <1>3 DEF Leave, ListTypeOK
  <2>2. members' \in [Conversations -> SUBSET Users] /\ changes' \in 0..MaxChanges
    BY <1>3 DEF Leave, ListTypeOK
  <2>3. QED
    BY <1>3, <2>1, <2>2 DEF Leave, ListTypeOK
<1>4. ASSUME NEW u \in Callers, NEW c \in Conversations, Join(u, c) PROVE ListTypeOK'
  <2>1. dbRead' \in [Conversations -> [Users -> Nat \cup {NoRow}]]
    BY <1>4 DEF Join, ListTypeOK
  <2>2. members' \in [Conversations -> SUBSET Users] /\ changes' \in 0..MaxChanges
    BY <1>4 DEF Join, ListTypeOK
  <2>3. QED
    BY <1>4, <2>1, <2>2 DEF Join, ListTypeOK
<1>5. ASSUME NEW u \in Callers, DropCache(u) PROVE ListTypeOK'
  <2>1. DropCacheStep(u)
    BY <1>5, DropCacheIsStep
  <2>2. read' \in [Users -> [Conversations -> Nat]] /\ index' \in [Users -> SUBSET Conversations]
    <3>1. read \in [Users -> [Conversations -> Nat]] /\ index \in [Users -> SUBSET Conversations]
      BY DEF ListTypeOK
    <3>2. CASE index' = index /\ read' = read
      BY <3>1, <3>2
    <3>3. CASE /\ index' = [index EXCEPT ![u] = {}]
               /\ read' = [read EXCEPT ![u] = NoCursors]
      BY <3>1, <3>3, NoCursorsType
    <3>4. QED
      BY <2>1, <3>2, <3>3 DEF DropCacheStep
  <2>3. dropping' \subseteq Users
    BY <1>5 DEF DropCache, ListTypeOK
  <2>4. QED
    BY <1>5, <2>2, <2>3 DEF DropCache, ListTypeOK
<1>6. ASSUME Expire PROVE ListTypeOK'
  <2>1. ExpireStep
    BY <1>6, ExpireIsStep
  <2>2. /\ index' \in [Users -> SUBSET Conversations]
        /\ read' \in [Users -> [Conversations -> Nat]]
        /\ last' \in [Conversations -> Nat \cup {NoKey}]
    <3>1. /\ index \in [Users -> SUBSET Conversations]
          /\ read \in [Users -> [Conversations -> Nat]]
          /\ last \in [Conversations -> Nat \cup {NoKey}]
      BY DEF ListTypeOK
    <3>2. ASSUME NEW u \in Users, index' = [index EXCEPT ![u] = {}]
          PROVE  index' \in [Users -> SUBSET Conversations]
      BY <3>1, <3>2
    <3>3. ASSUME NEW u \in Users, read' = [read EXCEPT ![u] = NoCursors]
          PROVE  read' \in [Users -> [Conversations -> Nat]]
      BY <3>1, <3>3, NoCursorsType
    <3>4. ASSUME NEW c \in Conversations, last' = [last EXCEPT ![c] = NoKey]
          PROVE  last' \in [Conversations -> Nat \cup {NoKey}]
      BY <3>1, <3>4
    <3>5. QED
      BY <2>1, <3>1, <3>2, <3>3, <3>4 DEF ExpireStep
  <2>3. QED
    BY <1>6, <2>2 DEF Expire, ListTypeOK
<1>7. ASSUME NEW j \in Jobs, CacheSummary(j) PROVE ListTypeOK'
  <2>1. MessageOf[j] \in Messages /\ ConvOf[MessageOf[j]] \in Conversations
        /\ SeqNo[MessageOf[j]] \in Nat
    OBVIOUS
  <2>2. last' \in [Conversations -> Nat \cup {NoKey}]
    BY <1>7, <2>1 DEF CacheSummary, ListTypeOK
  <2>3. job' \in [Jobs -> {"waiting", "index", "read", "done"}]
    BY <1>7 DEF CacheSummary, JobStep, ListTypeOK
  <2>4. QED
    BY <1>7, <2>2, <2>3 DEF CacheSummary, ListTypeOK
<1>8. ASSUME NEW j \in Jobs, CacheIndex(j) PROVE ListTypeOK'
  <2>1. ConvOf[MessageOf[j]] \in Conversations
    OBVIOUS
  <2>2. QED
    BY <1>8, <2>1 DEF CacheIndex, JobStep, ListTypeOK
<1>9. ASSUME NEW j \in Jobs, CacheRead(j) PROVE ListTypeOK'
  <2>1. MessageOf[j] \in Messages /\ FromOf[MessageOf[j]] \in Users
        /\ ConvOf[MessageOf[j]] \in Conversations /\ SeqNo[MessageOf[j]] \in Nat
    OBVIOUS
  <2> DEFINE cursor == read[FromOf[MessageOf[j]]][ConvOf[MessageOf[j]]]
             seqNo == SeqNo[MessageOf[j]]
  <2>8. cursor \in Nat /\ seqNo \in Nat
    BY <2>1 DEF ListTypeOK
  <2>9. Seen(FromOf[MessageOf[j]], MessageOf[j]) = Max({cursor, seqNo})
    BY DEF Seen
  <2>. HIDE DEF cursor, seqNo
  <2>2. Seen(FromOf[MessageOf[j]], MessageOf[j]) \in Nat
    BY <2>8, <2>9, MaxOfTwo
  <2>3. read' \in [Users -> [Conversations -> Nat]]
    BY <1>9, <2>1, <2>2 DEF CacheRead, ListTypeOK
  <2>4. QED
    BY <1>9, <2>3 DEF CacheRead, JobStep, ListTypeOK
<1>10. ASSUME NEW j \in Jobs, JobFails(j) PROVE ListTypeOK'
  BY <1>10 DEF JobFails, ListTypeOK
<1>11. ASSUME NEW u \in Callers, List(u) PROVE ListTypeOK'
  BY <1>11 DEF List, ListTypeOK
<1>12. ASSUME NEW u \in Callers, ReadMySQL(u) PROVE ListTypeOK'
  <2>1. snap' \in [Users -> [Conversations -> Row]]
    BY <1>12, ReadMySQLTypes
  <2>2. QED
    BY <1>12, <2>1 DEF ReadMySQL, ListTypeOK
<1>13. ASSUME NEW u \in Callers, Fill(u) PROVE ListTypeOK'
  <2>1. /\ index' \in [Users -> SUBSET Conversations]
        /\ last' \in [Conversations -> Nat \cup {NoKey}]
        /\ read' \in [Users -> [Conversations -> Nat]]
        /\ snap' \in [Users -> [Conversations -> Row]]
    BY <1>13, FillTypes
  <2>2. UNCHANGED <<dbVars, job, found, dropping>>
        /\ call' \in [Users -> {"none", "reading", "filling", "filtering", "answered"}]
    BY <1>13 DEF Fill, ListTypeOK
  <2>3. QED
    BY <2>1, <2>2 DEF ListTypeOK
<1>14. ASSUME NEW u \in Callers, Filter(u) PROVE ListTypeOK'
  <2>1. Visible(u) \in SUBSET Conversations
    BY DEF Visible, ListTypeOK
  <2>2. QED
    <3>1. found' \in [Users -> SUBSET Conversations]
      BY <1>14, <2>1 DEF Filter, ListTypeOK
    <3>2. call' \in [Users -> {"none", "reading", "filling", "filtering", "answered"}]
      BY <1>14 DEF Filter, ListTypeOK
    <3>3. QED
      BY <1>14, <3>1, <3>2 DEF Filter, ListTypeOK
<1>15. CASE UNCHANGED listVars
  BY <1>15 DEF listVars, ListTypeOK
<1>16. QED
  BY <1>1, <1>2, <1>3, <1>4, <1>5, <1>6, <1>7, <1>8, <1>9, <1>10, <1>11, <1>12,
     <1>13, <1>14, <1>15 DEF ListNext

(* A step that OnlyFillsMoveBack allows.                                   *)
MovesBackByFill ==
  /\ \A c \in Conversations :
       last'[c] < last[c] =>
         last'[c] = NoKey \/ \E u \in Users : call[u] = "filling" /\ last'[c] = snap[u][c].last
  /\ \A u \in Users, c \in Conversations :
       read'[u][c] < read[u][c] =>
         read'[u][c] = 0 \/ (call[u] = "filling" /\ read'[u][c] = snap[u][c].read)

(* A cached sequence number is not less than itself.                       *)
LEMMA KeptIsNotBack ==
  ASSUME ListTypeOK, UNCHANGED <<last, read>>
  PROVE  MovesBackByFill
<1>1. \A c \in Conversations : last[c] \in Int
  BY DEF ListTypeOK, NoKey
<1>2. \A u \in Users, c \in Conversations : read[u][c] \in Int
  BY DEF ListTypeOK
<1>3. QED
  BY <1>1, <1>2 DEF MovesBackByFill

(* No step but an expiry, a deletion or a fill takes the cache back.       *)
LEMMA StepMovesBackByFill ==
  ASSUME ListTypeOK, [ListNext]_listVars
  PROVE  MovesBackByFill
<1>. USE DEF dbVars, cacheVars, callVars
<1>1. \A c \in Conversations : last[c] \in Int
  BY DEF ListTypeOK, NoKey
<1>2. \A u \in Users, c \in Conversations : read[u][c] \in Int
  BY DEF ListTypeOK
<1>3. CASE UNCHANGED <<last, read>>
  BY <1>3, KeptIsNotBack
<1>4. ASSUME NEW u \in Callers, DropCache(u) PROVE MovesBackByFill
  <2>1. DropCacheStep(u) /\ last' = last
    BY <1>4, DropCacheIsStep DEF DropCache
  <2>2. \A v \in Users, c \in Conversations : read'[v][c] = read[v][c] \/ read'[v][c] = 0
    BY <2>1, NoCursorsType DEF DropCacheStep, ListTypeOK
  <2>3. QED
    BY <1>1, <1>2, <2>1, <2>2 DEF MovesBackByFill
<1>5. ASSUME Expire PROVE MovesBackByFill
  <2>1. ExpireStep
    BY <1>5, ExpireIsStep
  <2>2. \A c \in Conversations : last'[c] = last[c] \/ last'[c] = NoKey
    BY <2>1 DEF ExpireStep, ListTypeOK
  <2>3. \A v \in Users, c \in Conversations : read'[v][c] = read[v][c] \/ read'[v][c] = 0
    BY <2>1, NoCursorsType DEF ExpireStep, ListTypeOK
  <2>4. QED
    BY <1>1, <1>2, <2>2, <2>3 DEF MovesBackByFill
<1>6. ASSUME NEW j \in Jobs, CacheSummary(j) PROVE MovesBackByFill
  <2> DEFINE m == MessageOf[j]
  <2>1. ConvOf[m] \in Conversations /\ SeqNo[m] \in Int
    OBVIOUS
  <2>2. \A c \in Conversations : last[c] <= last'[c] /\ last'[c] \in Int
    BY <1>1, <1>6, <2>1 DEF CacheSummary, Applies, ListTypeOK
  <2>3. read' = read
    BY <1>6 DEF CacheSummary
  <2>4. QED
    BY <1>1, <1>2, <2>2, <2>3 DEF MovesBackByFill
<1>7. ASSUME NEW j \in Jobs, CacheRead(j) PROVE MovesBackByFill
  <2> DEFINE m == MessageOf[j]
             a == FromOf[m]
             d == ConvOf[m]
  <2>1. m \in Messages /\ a \in Users /\ d \in Conversations /\ SeqNo[m] \in Int
    OBVIOUS
  <2>2. Seen(a, m) \in Int /\ read[a][d] <= Seen(a, m)
    BY <1>2, <2>1, MaxOfTwo DEF Seen
  <2>3. read' = [read EXCEPT ![a] = [@ EXCEPT ![d] = Seen(a, m)]]
    BY <1>7 DEF CacheRead
  <2>. HIDE DEF m, a, d
  <2>4. \A u \in Users, c \in Conversations :
          read'[u][c] \in Int /\ read[u][c] <= read'[u][c]
    BY <1>2, <2>1, <2>2, <2>3 DEF ListTypeOK
  <2>5. last' = last
    BY <1>7 DEF CacheRead
  <2>6. QED
    BY <1>1, <1>2, <2>4, <2>5 DEF MovesBackByFill
<1>8. ASSUME NEW u \in Callers, Fill(u) PROVE MovesBackByFill
  <2>1. u \in Users /\ call[u] = "filling"
    BY <1>8 DEF Fill
  <2>2. CASE UNCHANGED cacheVars
    BY <2>2, <1>3
  <2>3. CASE ~UNCHANGED cacheVars
    <3>1. \A c \in Conversations : last'[c] = last[c] \/ last'[c] = snap[u][c].last
      BY <1>8, <2>3 DEF Fill
    <3>2. \A v \in Users, c \in Conversations :
            read'[v][c] = read[v][c] \/ (v = u /\ read'[v][c] = snap[u][c].read)
      BY <1>8, <2>1, <2>3 DEF Fill, ListTypeOK
    <3>3. QED
      BY <1>1, <1>2, <2>1, <3>1, <3>2 DEF MovesBackByFill
  <2>4. QED
    BY <2>2, <2>3
<1>9. [ListNext]_listVars =>
        \/ UNCHANGED <<last, read>>
        \/ Expire
        \/ \E u \in Callers : DropCache(u) \/ Fill(u)
        \/ \E j \in Jobs : CacheSummary(j) \/ CacheRead(j)
  BY DEF ListNext, listVars, Store, Fold, Leave, Join, CacheIndex, JobFails, List,
         ReadMySQL, Filter
<1>10. QED
  BY <1>3, <1>4, <1>5, <1>6, <1>7, <1>8, <1>9

-----------------------------------------------------------------------------
(* Tables, cache keys and the variables of a login keep their types        *)
(* whatever the order of deliveries, logins, joins, leaves and expiries.   *)
THEOREM ListTypesCorrect == ListSpec => []ListTypeOK
<1>1. ListInit => ListTypeOK
  BY ListInitTypes
<1>2. ListTypeOK /\ [ListNext]_listVars => ListTypeOK'
  BY ListStepTypes
<1>3. QED
  BY <1>1, <1>2, PTL DEF ListSpec

(* Late and repeated delivery attempts never take the cached summary or a  *)
(* read cursor back (updateConversationLastScript,                         *)
(* markConversationReadScript): only an expiry, the deletion after a       *)
(* membership change, or a fill with what MySQL held does.                 *)
THEOREM DeliveriesNeverMoveBack == ListSpec => OnlyFillsMoveBack
<1>1. ListTypeOK /\ [ListNext]_listVars => [MovesBackByFill]_listVars
  BY StepMovesBackByFill
<1>2. QED
  BY <1>1, ListTypesCorrect, PTL DEF ListSpec, OnlyFillsMoveBack, MovesBackByFill

-----------------------------------------------------------------------------
(* Where the cached numbers come from.                                     *)

\* n is 0 or the sequence number of a message of c among S; Own: of one by u.
Known(S, c, n) == n = 0 \/ \E m \in S : ConvOf[m] = c /\ SeqNo[m] = n

Own(S, u, c, n) == n = 0 \/ \E m \in S : ConvOf[m] = c /\ SeqNo[m] = n /\ FromOf[m] = u

CacheIsStored ==
  /\ \A c \in Conversations : last[c] # NoKey => Known(stored, c, last[c])
  /\ \A u \in Users, c \in Conversations : Own(stored, u, c, read[u][c])

\* What fills and delivery attempts are about to write is stored too.
TablesAreStored ==
  \A c \in Conversations :
    /\ Known(stored, c, dbLast[c])
    /\ \A u \in Users : dbRead[c][u] # NoRow => Own(stored, u, c, dbRead[c][u])

SnapsAreStored ==
  \A u \in Users, c \in Conversations :
    Known(stored, c, snap[u][c].last) /\ Own(stored, u, c, snap[u][c].read)

JobsAreStored == \A j \in Jobs : job[j] # "waiting" => MessageOf[j] \in stored

StoredInv ==
  ListTypeOK /\ CacheIsStored /\ TablesAreStored /\ SnapsAreStored /\ JobsAreStored

(* No stored message is deleted.                                           *)
LEMMA StoredGrows ==
  ASSUME [ListNext]_listVars
  PROVE  /\ stored \subseteq stored'
         /\ \A c, n : Known(stored, c, n) => Known(stored', c, n)
         /\ \A u, c, n : Own(stored, u, c, n) => Own(stored', u, c, n)
<1>1. ASSUME \E m \in Messages : Store(m) \/ Fold(m)
      PROVE  stored \subseteq stored'
  BY <1>1 DEF Store, Fold
<1>2. ASSUME \E u \in Callers, c \in Conversations : Leave(u, c) \/ Join(u, c)
      PROVE  stored \subseteq stored'
  BY <1>2 DEF Leave, Join
<1>3. ASSUME UNCHANGED dbVars \/ UNCHANGED listVars
      PROVE  stored \subseteq stored'
  BY <1>3 DEF dbVars, listVars
<1>4. \/ UNCHANGED dbVars \/ UNCHANGED listVars
      \/ \E m \in Messages : Store(m) \/ Fold(m)
      \/ \E u \in Callers, c \in Conversations : Leave(u, c) \/ Join(u, c)
  BY DEF ListNext, DropCache, Expire, CacheSummary, CacheIndex, CacheRead, JobFails, List,
         ReadMySQL, Fill, Filter
<1>5. stored \subseteq stored'
  BY <1>1, <1>2, <1>3, <1>4
<1>6. QED
  BY <1>5 DEF Known, Own

(* A message may be shown, and by its sender counted as read, once stored. *)
LEMMA StoredIsKnown ==
  ASSUME NEW m \in stored
  PROVE  /\ Known(stored, ConvOf[m], SeqNo[m])
         /\ Own(stored, FromOf[m], ConvOf[m], SeqNo[m])
BY DEF Known, Own

LEMMA StepTablesAreStored ==
  ASSUME StoredInv, [ListNext]_listVars
  PROVE  TablesAreStored'
<1>. USE DEF dbVars, cacheVars, callVars
<1>1. ListTypeOK /\ TablesAreStored
  BY DEF StoredInv
<1>2. SUFFICES ASSUME NEW c \in Conversations
               PROVE  /\ Known(stored', c, dbLast'[c])
                      /\ \A u \in Users :
                           dbRead'[c][u] # NoRow => Own(stored', u, c, dbRead'[c][u])
  BY DEF TablesAreStored
<1>3. CASE dbLast' = dbLast /\ dbRead' = dbRead
  BY <1>1, <1>3, StoredGrows DEF TablesAreStored
<1>4. ASSUME NEW m \in Messages, Fold(m)
      PROVE  /\ Known(stored', c, dbLast'[c])
             /\ \A u \in Users : dbRead'[c][u] # NoRow => Own(stored', u, c, dbRead'[c][u])
  <2>1. m \in stored /\ stored' = stored /\ ConvOf[m] \in Conversations /\ SeqNo[m] \in Int
    BY <1>4 DEF Fold
  <2>2. Known(stored, c, dbLast'[c])
    <3>1. dbLast[ConvOf[m]] \in Int
      BY <1>1, <2>1 DEF ListTypeOK
    <3>2. Max({dbLast[ConvOf[m]], SeqNo[m]}) \in {dbLast[ConvOf[m]], SeqNo[m]}
      BY <2>1, <3>1, MaxOfTwo
    <3>3. dbLast'[c] = dbLast[c] \/ (c = ConvOf[m] /\ dbLast'[c] = SeqNo[m])
      BY <1>1, <1>4, <3>2 DEF Fold, ListTypeOK
    <3>4. QED
      BY <1>1, <2>1, <3>3, StoredIsKnown DEF TablesAreStored
  <2>3. ASSUME NEW u \in Users, dbRead'[c][u] # NoRow
        PROVE  Own(stored, u, c, dbRead'[c][u])
    <3> DEFINE new == IF u = FromOf[m] THEN SeqNo[m] ELSE 0
               row == [v \in Users |->
                         Max({dbRead[c][v], IF v = FromOf[m] THEN SeqNo[m] ELSE 0})]
    <3>1. dbRead'[c] = dbRead[c] \/ (c = ConvOf[m] /\ dbRead'[c] = row)
      BY <1>1, <1>4 DEF Fold, ListTypeOK
    <3>2. dbRead[c][u] \in Int /\ new \in Int
      BY <1>1, <2>1 DEF ListTypeOK, NoRow
    <3>3. row[u] \in {dbRead[c][u], new}
      BY <3>2, MaxOfTwo
    <3>4. CASE dbRead'[c][u] = dbRead[c][u]
      BY <1>1, <2>3, <3>4 DEF TablesAreStored
    <3>5. CASE c = ConvOf[m] /\ dbRead'[c][u] = new
      BY <2>1, <3>5, StoredIsKnown DEF Own
    <3> HIDE DEF row, new
    <3>6. QED
      BY <3>1, <3>3, <3>4, <3>5
  <2>4. QED
    BY <2>1, <2>2, <2>3
<1>5. ASSUME NEW v \in Users, NEW d \in Conversations, Leave(v, d) \/ Join(v, d)
      PROVE  /\ Known(stored', c, dbLast'[c])
             /\ \A u \in Users : dbRead'[c][u] # NoRow => Own(stored', u, c, dbRead'[c][u])
  <2>1. dbLast' = dbLast /\ stored' = stored
    BY <1>5 DEF Leave, Join
  <2>2. PICK n \in {NoRow, 0} : dbRead' = [dbRead EXCEPT ![d] = [@ EXCEPT ![v] = n]]
    BY <1>5 DEF Leave, Join
  <2>3. \A u \in Users : dbRead'[c][u] \in {dbRead[c][u], n}
    BY <1>1, <2>2 DEF ListTypeOK
  <2>4. QED
    BY <1>1, <2>1, <2>3 DEF TablesAreStored, Own
<1>6. \/ dbLast' = dbLast /\ dbRead' = dbRead
      \/ \E m \in Messages : Fold(m)
      \/ \E v \in Users, d \in Conversations : Leave(v, d) \/ Join(v, d)
  BY DEF ListNext, listVars, Store, DropCache, Expire, CacheSummary, CacheIndex, CacheRead,
         JobFails, List, ReadMySQL, Fill, Filter
<1>7. QED
  BY <1>3, <1>4, <1>5, <1>6

LEMMA StepSnapsAreStored ==
  ASSUME StoredInv, [ListNext]_listVars
  PROVE  SnapsAreStored'
<1>1. ListTypeOK /\ TablesAreStored /\ SnapsAreStored
  BY DEF StoredInv
<1>2. SUFFICES ASSUME NEW u \in Users, NEW c \in Conversations
               PROVE  /\ Known(stored', c, snap'[u][c].last)
                      /\ Own(stored', u, c, snap'[u][c].read)
  BY DEF SnapsAreStored
<1>3. NoRows[c] = [last |-> 0, read |-> 0]
  BY DEF NoRows
<1>4. CASE snap'[u][c] = snap[u][c] \/ snap'[u][c] = NoRows[c]
  BY <1>1, <1>3, <1>4, StoredGrows DEF SnapsAreStored, Known, Own
<1>5. CASE dbRead[c][u] # NoRow /\ snap'[u][c] = [last |-> dbLast[c], read |-> dbRead[c][u]]
  BY <1>1, <1>5, StoredGrows DEF TablesAreStored
<1>6. ASSUME NEW v \in Callers, ReadMySQL(v)
      PROVE  \/ snap'[u][c] = snap[u][c] \/ snap'[u][c] = NoRows[c]
             \/ /\ dbRead[c][u] # NoRow
                /\ snap'[u][c] = [last |-> dbLast[c], read |-> dbRead[c][u]]
  BY <1>1, <1>6 DEF ReadMySQL, ListTypeOK
<1>7. ASSUME NEW v \in Callers, Fill(v)
      PROVE  snap'[u][c] = snap[u][c] \/ snap'[u][c] = NoRows[c]
  BY <1>1, <1>7 DEF Fill, ListTypeOK
<1>8. \/ snap' = snap
      \/ \E v \in Callers : ReadMySQL(v) \/ Fill(v)
  BY DEF ListNext, listVars, callVars, Store, Fold, Leave, Join, DropCache, Expire, CacheSummary,
         CacheIndex, CacheRead, JobFails, List, Filter
<1>9. QED
  BY <1>4, <1>5, <1>6, <1>7, <1>8

LEMMA StepJobsAreStored ==
  ASSUME StoredInv, [ListNext]_listVars
  PROVE  JobsAreStored'
<1>1. ListTypeOK /\ JobsAreStored
  BY DEF StoredInv
<1>2. SUFFICES ASSUME NEW j \in Jobs, job'[j] # "waiting" PROVE MessageOf[j] \in stored'
  BY DEF JobsAreStored
<1>3. CASE job[j] # "waiting"
  BY <1>1, <1>3, StoredGrows DEF JobsAreStored
<1>4. ASSUME NEW i \in Jobs, CacheSummary(i) PROVE job'[j] = job[j] \/ MessageOf[j] \in stored
  BY <1>1, <1>4 DEF CacheSummary, JobStep, ListTypeOK
<1>5. ASSUME NEW i \in Jobs, CacheIndex(i) \/ CacheRead(i) \/ JobFails(i)
      PROVE  job'[j] = job[j] \/ job[j] # "waiting"
  BY <1>1, <1>5 DEF CacheIndex, CacheRead, JobFails, JobStep, ListTypeOK
<1>6. \/ job' = job
      \/ \E i \in Jobs : CacheSummary(i) \/ CacheIndex(i) \/ CacheRead(i) \/ JobFails(i)
  BY DEF ListNext, listVars, Store, Fold, Leave, Join, DropCache, Expire,
         List, ReadMySQL, Fill, Filter
<1>7. QED
  BY <1>2, <1>3, <1>4, <1>5, <1>6, StoredGrows

LEMMA StepCacheIsStored ==
  ASSUME StoredInv, [ListNext]_listVars
  PROVE  CacheIsStored'
<1>. USE DEF dbVars, cacheVars, callVars
<1>1. ListTypeOK /\ CacheIsStored /\ SnapsAreStored /\ JobsAreStored
  BY DEF StoredInv
<1>2. SUFFICES /\ \A c \in Conversations : last'[c] # NoKey => Known(stored, c, last'[c])
               /\ \A u \in Users, c \in Conversations : Own(stored, u, c, read'[u][c])
  BY StoredGrows DEF CacheIsStored
<1>3. CASE UNCHANGED <<last, read>>
  BY <1>1, <1>3 DEF CacheIsStored
<1>4. CASE /\ \A c \in Conversations : last'[c] \in {last[c], NoKey}
           /\ \A u \in Users, c \in Conversations : read'[u][c] \in {read[u][c], 0}
  BY <1>1, <1>4 DEF CacheIsStored, Own
<1>5. ASSUME \E u \in Callers : DropCache(u)
      PROVE  /\ \A c \in Conversations : last'[c] \in {last[c], NoKey}
             /\ \A u \in Users, c \in Conversations : read'[u][c] \in {read[u][c], 0}
  <2>1. PICK v \in Callers : DropCacheStep(v) /\ last' = last
    BY <1>5, DropCacheIsStep DEF DropCache
  <2>2. QED
    BY <1>1, <2>1, NoCursorsType DEF DropCacheStep, ListTypeOK
<1>6. ASSUME Expire
      PROVE  /\ \A c \in Conversations : last'[c] \in {last[c], NoKey}
             /\ \A u \in Users, c \in Conversations : read'[u][c] \in {read[u][c], 0}
  BY <1>1, <1>6, ExpireIsStep, NoCursorsType DEF ExpireStep, ListTypeOK
<1>7. ASSUME NEW j \in Jobs, CacheSummary(j)
      PROVE  \A c \in Conversations :
               last'[c] = last[c] \/ Known(stored, c, last'[c])
  <2>1. MessageOf[j] \in stored
    BY <1>7 DEF CacheSummary
  <2>2. QED
    BY <1>1, <1>7, <2>1, StoredIsKnown DEF CacheSummary, ListTypeOK
<1>8. ASSUME NEW j \in Jobs, CacheRead(j)
      PROVE  \A u \in Users, c \in Conversations : Own(stored, u, c, read'[u][c])
  <2> DEFINE m == MessageOf[j]
             a == FromOf[m]
             d == ConvOf[m]
  <2>1. m \in stored /\ a \in Users /\ d \in Conversations /\ SeqNo[m] \in Int
    BY <1>1, <1>8 DEF CacheRead, JobStep, JobsAreStored, ListTypeOK
  <2>2. read[a][d] \in Int
    BY <1>1, <2>1 DEF ListTypeOK
  <2>3. Seen(a, m) \in {read[a][d], SeqNo[m]}
    BY <2>1, <2>2, MaxOfTwo DEF Seen
  <2>4. Own(stored, a, d, Seen(a, m))
    BY <1>1, <2>1, <2>3, StoredIsKnown DEF CacheIsStored
  <2>5. read' = [read EXCEPT ![a] = [@ EXCEPT ![d] = Seen(a, m)]]
    BY <1>8 DEF CacheRead
  <2>. HIDE DEF m, a, d
  <2>6. \A u \in Users, c \in Conversations :
          read'[u][c] = read[u][c] \/ (u = a /\ c = d /\ read'[u][c] = Seen(a, m))
    BY <1>1, <2>1, <2>5 DEF ListTypeOK
  <2>7. QED
    BY <1>1, <2>4, <2>6 DEF CacheIsStored
<1>9. ASSUME NEW v \in Callers, Fill(v), ~UNCHANGED cacheVars
      PROVE  /\ \A c \in Conversations : last'[c] \in {last[c], snap[v][c].last}
             /\ \A u \in Users, c \in Conversations :
                  read'[u][c] = read[u][c] \/ (u = v /\ read'[u][c] = snap[u][c].read)
  BY <1>1, <1>9 DEF Fill, ListTypeOK
<1>10. ASSUME NEW v \in Callers, Fill(v), ~UNCHANGED cacheVars
       PROVE  /\ \A c \in Conversations : last'[c] # NoKey => Known(stored, c, last'[c])
              /\ \A u \in Users, c \in Conversations : Own(stored, u, c, read'[u][c])
  BY <1>1, <1>9, <1>10 DEF CacheIsStored, SnapsAreStored
<1>11. ASSUME NEW j \in Jobs, CacheSummary(j)
       PROVE  /\ \A c \in Conversations : last'[c] # NoKey => Known(stored, c, last'[c])
              /\ \A u \in Users, c \in Conversations : Own(stored, u, c, read'[u][c])
  BY <1>1, <1>7, <1>11 DEF CacheIsStored, CacheSummary
<1>12. ASSUME NEW j \in Jobs, CacheRead(j)
       PROVE  /\ \A c \in Conversations : last'[c] # NoKey => Known(stored, c, last'[c])
              /\ \A u \in Users, c \in Conversations : Own(stored, u, c, read'[u][c])
  BY <1>1, <1>8, <1>12 DEF CacheIsStored, CacheRead
<1>13. \/ UNCHANGED <<last, read>>
       \/ Expire
       \/ \E u \in Callers : DropCache(u)
       \/ \E u \in Callers : Fill(u) /\ ~UNCHANGED cacheVars
       \/ \E j \in Jobs : CacheSummary(j) \/ CacheRead(j)
  BY DEF ListNext, listVars, Store, Fold, Leave, Join, CacheIndex, JobFails, List,
         ReadMySQL, Filter
<1>14. QED
  BY <1>3, <1>4, <1>5, <1>6, <1>10, <1>11, <1>12, <1>13

(* The cached list invents nothing: whatever deliveries, logins, joins,    *)
(* leaves and expiries race, a cached summary is that of a stored message  *)
(* of the conversation, and a user's cached read cursor is at a stored     *)
(* message that the user sent there (CacheConversationMessage,             *)
(* cacheConversationList).                                                 *)
THEOREM NothingIsInvented == ListSpec => []CacheIsStored
<1>1. ListInit => StoredInv
  <2>1. ListInit => CacheIsStored /\ TablesAreStored /\ JobsAreStored
    BY DEF ListInit, CacheIsStored, TablesAreStored, JobsAreStored, Known, Own
  <2>2. ListInit => SnapsAreStored
    BY DEF ListInit, SnapsAreStored, NoRows, Known, Own
  <2>3. QED
    BY <2>1, <2>2, ListInitTypes DEF StoredInv
<1>2. StoredInv /\ [ListNext]_listVars => StoredInv'
  BY ListStepTypes, StepCacheIsStored, StepTablesAreStored, StepSnapsAreStored,
     StepJobsAreStored DEF StoredInv
<1>3. StoredInv => CacheIsStored
  BY DEF StoredInv
<1>4. QED
  BY <1>1, <1>2, <1>3, PTL DEF ListSpec

=============================================================================
