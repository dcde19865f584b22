----------------------------- MODULE AtLeastOnce -----------------------------
(***************************************************************************)
(* What every durable outbox of LinkGo promises about a job it accepted:   *)
(* the job stays owed until a worker that has seen every one of its        *)
(* targets served marks it done, or until the worker gives up on it (dead).*)
(* A target may be served more than once and may still be served after the *)
(* job is settled; a settled job is never owed again.                      *)
(***************************************************************************)
CONSTANTS
  Jobs,       \* identities of the outbox rows
  Targets,    \* external destinations: a user's Redis inbox, a Kafka topic
  TargetsOf   \* [Jobs -> SUBSET Targets], what serving the job means

VARIABLES
  phase,      \* "absent" -> "owed" -> "done" or "dead"
  served      \* the targets a job has reached so far

vars == <<phase, served>>

Init ==
  /\ phase = [j \in Jobs |-> "absent"]
  /\ served = [j \in Jobs |-> {}]

Accept(j) ==
  /\ phase[j] = "absent"
  /\ phase' = [phase EXCEPT ![j] = "owed"]
  /\ UNCHANGED served

Serve(j, t) ==
  /\ phase[j] # "absent"
  /\ t \in TargetsOf[j]
  /\ served' = [served EXCEPT ![j] = @ \cup {t}]
  /\ UNCHANGED phase

Complete(j) ==
  /\ phase[j] = "owed"
  /\ TargetsOf[j] \subseteq served[j]
  /\ phase' = [phase EXCEPT ![j] = "done"]
  /\ UNCHANGED served

GiveUp(j) ==
  /\ phase[j] = "owed"
  /\ phase' = [phase EXCEPT ![j] = "dead"]
  /\ UNCHANGED served

Next ==
  \E j \in Jobs :
    \/ Accept(j)
    \/ \E t \in Targets : Serve(j, t)
    \/ Complete(j)
    \/ GiveUp(j)

Spec == Init /\ [][Next]_vars

=============================================================================
