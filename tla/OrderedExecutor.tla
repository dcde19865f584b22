--------------------------- MODULE OrderedExecutor ---------------------------
(***************************************************************************)
(* What the Gateway's push worker pool promises about the tasks submitted  *)
(* to it: while the pool is open a task is taken on or refused; what was   *)
(* taken on is run to its end exactly once, the tasks of one key one at a  *)
(* time and in the order in which they were taken on; and a pool that      *)
(* reports itself drained has finished everything it took on.              *)
(***************************************************************************)
EXTENDS Naturals, Sequences

CONSTANTS
  Tasks,
  KeyOf       \* the tasks of one key are ordered

VARIABLES
  open,       \* tasks are still taken on
  drained,    \* the pool reported that everything is finished
  order,      \* the tasks taken on, in that order
  started,
  finished

vars == <<open, drained, order, started, finished>>

Init ==
  /\ open = TRUE
  /\ drained = FALSE
  /\ order = <<>>
  /\ started = {}
  /\ finished = {}

TakeOn(t) ==
  /\ open
  /\ \A n \in DOMAIN order : order[n] # t
  /\ order' = Append(order, t)
  /\ UNCHANGED <<open, drained, started, finished>>

Start(t) ==
  /\ t \notin started
  /\ \E n \in DOMAIN order :
       /\ order[n] = t
       /\ \A m \in 1..(n - 1) : KeyOf[order[m]] = KeyOf[t] => order[m] \in finished
  /\ started' = started \cup {t}
  /\ UNCHANGED <<open, drained, order, finished>>

Finish(t) ==
  /\ t \in started \ finished
  /\ finished' = finished \cup {t}
  /\ UNCHANGED <<open, drained, order, started>>

Shut ==
  /\ open
  /\ open' = FALSE
  /\ UNCHANGED <<drained, order, started, finished>>

Drain ==
  /\ ~open
  /\ \A n \in DOMAIN order : order[n] \in finished
  /\ drained' = TRUE
  /\ UNCHANGED <<open, order, started, finished>>

Next ==
  \/ \E t \in Tasks : TakeOn(t) \/ Start(t) \/ Finish(t)
  \/ Shut
  \/ Drain

Spec == Init /\ [][Next]_vars

=============================================================================
