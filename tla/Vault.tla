------------------------------- MODULE Vault -------------------------------
\* What a user of the secure files relies on. A completed update is durable,
\* a power cut in the middle of one can lose that one file only, and nothing
\* else changes a file except the removal of all of them, which starts only
\* when a file has been lost or on a frail device. Neither the removal nor the
\* fresh files after it are durable before the next update has ended.
\* SecureStore is shown to implement this.

CONSTANTS
  Files,      \* the secure files
  Values,     \* what an update stores
  Zero,       \* content of a fresh file
  Lost,       \* no content that can be read
  None        \* no file

VARIABLES
  val,        \* what a read returns
  safe,       \* the values that a power cut may leave
  pend,       \* file whose update has begun
  wiping,     \* the files are being removed and made again
  frail       \* a file that is not lost may be refused

vars == <<val, safe, pend, wiping, frail>>

Init ==
  /\ val = [g \in Files |-> Lost]
  /\ safe = [g \in Files |-> {Lost}]
  /\ pend = None
  /\ wiping = FALSE
  /\ frail \in BOOLEAN

\* g has the value v, which a power cut may undo.
Set(g, v) ==
  /\ val' = [val EXCEPT ![g] = v]
  /\ safe' = [safe EXCEPT ![g] = @ \cup {v}]

\* A file that can be read is emptied to be updated.
Begin(g) ==
  /\ pend = None /\ ~wiping
  /\ val[g] # Lost
  /\ Set(g, Lost)
  /\ pend' = g
  /\ UNCHANGED <<wiping, frail>>

\* The update is written, or it failed half way.
Put(v) ==
  /\ pend # None
  /\ Set(pend, v)
  /\ UNCHANGED <<pend, wiping, frail>>

\* From here on the update is durable, and all that was done before it.
End ==
  /\ pend # None
  /\ safe' = [g \in Files |-> {val[g]}]
  /\ pend' = None
  /\ UNCHANGED <<val, wiping, frail>>

StartWipe ==
  /\ pend = None /\ ~wiping
  /\ frail \/ \E g \in Files : val[g] = Lost
  /\ wiping' = TRUE
  /\ UNCHANGED <<val, safe, pend, frail>>

Remove(g) ==
  /\ wiping
  /\ Set(g, Lost)
  /\ UNCHANGED <<pend, wiping, frail>>

EndWipe ==
  /\ wiping
  /\ wiping' = FALSE
  /\ UNCHANGED <<val, safe, pend, frail>>

\* A fresh file replaces one that was lost.
Fresh(g) ==
  /\ pend = None
  /\ val[g] = Lost
  /\ Set(g, Zero)
  /\ UNCHANGED <<pend, wiping, frail>>

\* Each file is as it is or as it was at a moment since the last end.
Cut ==
  /\ val' \in [Files -> Values \cup {Zero, Lost}]
  /\ \A g \in Files : val'[g] \in safe[g]
  /\ safe' = [g \in Files |-> {val'[g]}]
  /\ pend' = None
  /\ wiping' = FALSE
  /\ UNCHANGED frail

Next ==
  \/ \E g \in Files : Begin(g) \/ Remove(g) \/ Fresh(g)
  \/ \E v \in Values \cup {Zero, Lost} : Put(v)
  \/ End \/ StartWipe \/ EndWipe \/ Cut

Spec == Init /\ [][Next]_vars

=============================================================================
