------------------------------ MODULE ApiCall ------------------------------
(***************************************************************************)
(* What an API call of the AP (IPC_client) through the shared memory of    *)
(* SP/IPC_server.c promises: a call that was asked is served at most once, *)
(* by running it or by refusing it, and the AP gets back the result of its *)
(* own call.  A call can be lost, with the AP or with the SP.              *)
(***************************************************************************)
CONSTANTS Calls, Failed, None

VARIABLES phase, call, reply, got

vars == <<phase, call, reply, got>>

Off == phase = "off" /\ call = None /\ reply = None /\ got = None

Init == Off

Start == phase = "off" /\ phase' = "idle" /\ UNCHANGED <<call, reply, got>>

Ask(c) ==
  /\ phase = "idle"
  /\ phase' = "asked"
  /\ call' = c
  /\ UNCHANGED <<reply, got>>

Serve(r) ==
  /\ phase = "asked"
  /\ phase' = "served"
  /\ reply' = r
  /\ UNCHANGED <<call, got>>

Return ==
  /\ phase = "served"
  /\ phase' = "idle"
  /\ call' = None
  /\ reply' = None
  /\ got' = reply

(* the SP dies with the call in its hands *)
Lose ==
  /\ phase \in {"asked", "served"}
  /\ phase' = "lost"
  /\ reply' = None
  /\ UNCHANGED <<call, got>>

(* the AP dies, or the device loses its power *)
Stop == Off'

Next ==
  \/ Start \/ Return \/ Lose \/ Stop
  \/ \E c \in Calls : Ask(c)
  \/ \E r \in {call, Failed} : Serve(r)

Spec == Init /\ [][Next]_vars

=============================================================================
