---------------------------- MODULE RequestLedger ----------------------------
(***************************************************************************)
(* What the learning task and community services promise about a request   *)
(* that carries a request id and may be repeated: it is carried out at     *)
(* most once, two different requests never pass under one id, and a caller *)
(* is told of success only with what the request did when it was carried   *)
(* out.  An error promises nothing.                                        *)
(***************************************************************************)
EXTENDS Sequences, Naturals

CONSTANTS
  Calls,
  KeyOf(_),    \* the actor and the request id of a request
  NotTold, Failed

VARIABLES
  asks,        \* the request a call makes: repeated calls make the same one
  log,         \* the requests carried out, with their results, in order
  told         \* what each caller was told

Init ==
  /\ log = <<>>
  /\ told = [c \in Calls |-> NotTold]

Known(r) == \E n \in DOMAIN log : KeyOf(log[n].request) = KeyOf(r)

\* One record more, of the call's request and whatever it resulted in.
CarryOut(c) ==
  /\ ~Known(asks[c])
  /\ Len(log') = Len(log) + 1
  /\ SubSeq(log', 1, Len(log)) = log
  /\ log'[Len(log')].request = asks[c]

Tell(c, answer) == told[c] = NotTold /\ told' = [told EXCEPT ![c] = answer]

\* The request is carried out and its caller told, if not of an error.
Perform(c) ==
  /\ CarryOut(c)
  /\ Tell(c, log'[Len(log')].result) \/ Tell(c, Failed)

Repeat(c) ==
  /\ \E n \in DOMAIN log :
       log[n].request = asks[c] /\ Tell(c, log[n].result)
  /\ UNCHANGED log

Fail(c) == Tell(c, Failed) /\ UNCHANGED log

Next ==
  /\ \E c \in Calls : Perform(c) \/ Repeat(c) \/ Fail(c)
  /\ UNCHANGED asks

Spec == Init /\ [][Next]_<<asks, log, told>>

=============================================================================
