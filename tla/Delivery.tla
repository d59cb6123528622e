------------------------------ MODULE Delivery ------------------------------
\* What the sender of a stop-and-wait link may rely on: a message is confirmed
\* only after it has arrived, nothing arrives but the message posted last, and
\* it may arrive more than once, for no package carries a number. AuxLink is
\* shown to implement this in one direction.

EXTENDS Sequences, SequencesExt

CONSTANT Messages

VARIABLES
  posted,     \* messages handed to the link, in order
  rcvd,       \* messages that have arrived intact, in order
  outcome     \* of the last one: "none", "pending", "ok", "failed"

vars == <<posted, rcvd, outcome>>

Init ==
  /\ posted = <<>>
  /\ rcvd = <<>>
  /\ outcome = "none"

\* The next message, once the previous one is decided. The port may refuse it.
Post(m) ==
  /\ outcome # "pending"
  /\ posted' = Append(posted, m)
  /\ outcome' \in {"pending", "failed"}
  /\ UNCHANGED rcvd

Arrive ==
  /\ outcome \in {"pending", "failed"}
  /\ rcvd' = Append(rcvd, Last(posted))
  /\ UNCHANGED <<posted, outcome>>

Confirm ==
  /\ outcome = "pending"
  /\ rcvd # <<>> /\ Last(rcvd) = Last(posted)
  /\ outcome' = "ok"
  /\ UNCHANGED <<posted, rcvd>>

Fail ==
  /\ outcome = "pending"
  /\ outcome' = "failed"
  /\ UNCHANGED <<posted, rcvd>>

Next == (\E m \in Messages : Post(m)) \/ Arrive \/ Confirm \/ Fail

Spec == Init /\ [][Next]_vars
=============================================================================
