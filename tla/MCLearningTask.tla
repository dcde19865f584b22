---------------------------- MODULE MCLearningTask ----------------------------
(* Five requests race on a task that is not there yet, on one that was     *)
(* just published, on work that was handed in, and on a late draft.  In    *)
(* the last scenarios two notifiers send what one request owes.            *)
EXTENDS TaskNotifications, TLC

CONSTANTS olga, adam, mia, c1, c2, c3, c4, c5, n1, n2

MCUsers == {olga, adam, mia}
MCFirstRole == olga :> "owner" @@ adam :> "admin" @@ mia :> "member"
MCCalls == {c1, c2, c3, c4, c5}
MCNotifiers == {n1, n2}

Ask(actor, id, action, expected) ==
  [actor |-> actor, id |-> id, action |-> action, expected |-> expected, of |-> mia]

At(status, version) == [status |-> status, version |-> version]

Scenario(there, handedIn, r1, r2, r3, r4, r5) ==
  [task |-> there, work |-> [u \in MCUsers |-> IF u = mia THEN handedIn ELSE NoRow],
   asks |-> c1 :> r1 @@ c2 :> r2 @@ c3 :> r3 @@ c4 :> r4 @@ c5 :> r5,
   made |-> MCCalls, running |-> {}, disruptions |-> 0]

Notified(there, r1, mishaps) ==
  [Scenario(there, NoRow, r1, r1, r1, r1, r1) EXCEPT
     !.made = {c1}, !.running = MCNotifiers,
     !.disruptions = mishaps]

MCScenarios ==
  { Scenario(NoRow, NoRow,
      Ask(olga, 1, "create", 0), Ask(olga, 1, "create", 0), Ask(olga, 2, "edit", 1),
      Ask(adam, 1, "publish", 1), Ask(olga, 3, "publish", 2)),
    Scenario(At("published", 2), NoRow,
      Ask(mia, 1, "submit", 0), Ask(adam, 1, "return", 1), Ask(mia, 2, "submit", 2),
      Ask(olga, 1, "close", 2), Ask(olga, 2, "approve", 1)),
    Scenario(At("published", 2), At("submitted", 1),
      Ask(olga, 1, "return", 1), Ask(olga, 1, "return", 1), Ask(adam, 1, "approve", 3),
      Ask(mia, 1, "submit", 2), Ask(adam, 2, "close", 2)),
    Scenario(At("draft", 1), NoRow,
      Ask(olga, 1, "edit", 1), Ask(olga, 1, "publish", 1), Ask(adam, 1, "publish", 2),
      Ask(mia, 1, "submit", 0), Ask(adam, 2, "close", 3)),
    Notified(At("draft", 1), Ask(olga, 1, "publish", 1), 2),
    Notified(At("published", 2), Ask(mia, 1, "submit", 0), 1) }

=============================================================================
