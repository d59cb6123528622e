----------------------------- MODULE MCAuxLink -----------------------------
\* AuxLink with messages made of the control bytes of the protocols.

EXTENDS AuxLink

\* Every protocol on a timely system; DLL also on a late one.
MCSettings ==
  {<<"DLL", FALSE, "timely">>, <<"DLL", TRUE, "timely">>, <<"SOH", FALSE, "timely">>,
   <<"SOH4", TRUE, "timely">>, <<"STX", FALSE, "timely">>, <<"DLL", FALSE, "late">>}

\* The ends talk in turn.
MCTurnSettings == {<<"DLL", FALSE, "timely">>}

MCFaults == [timely |-> 2, late |-> 0]

MCPosts == [timely |-> 2, late |-> 1]

MCMessages == {<<6>>, <<1, 2>>}

\* What AuxNoise says of the packages of a protocol.
In(md) ==
  INSTANCE AuxNoise WITH mode <- md, ackMode <- FALSE, timing <- "timely", port <- <<>>,
    line <- <<>>, due <- <<>>, app <- <<>>, posted <- <<>>, outcome <- <<>>, rcvd <- <<>>,
    got <- <<>>, faults <- 0, refusals <- 0, hit <- <<>>

\* One fault makes no message of another: a judged package leaves a fresh reader, or one
\* that has taken its last byte for SOH.
MCHarmless ==
  \A md \in {"DLL", "SOH", "SOH4"} :
    /\ In(md)!OneWay /\ In(md)!Fits
    /\ In(md)!Harmless({In(md)!FreshReader, [In(md)!FreshReader EXCEPT !.state = "LEN_L"]})

\* The behaviours of a stop-and-wait link. There are none where MCHarmless fails.
MCInit == Init /\ MCHarmless

MCFairSpec == MCInit /\ [][Next]_vars /\ Fairness
=============================================================================
