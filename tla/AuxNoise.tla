------------------------------ MODULE AuxNoise ------------------------------
\* What a fault on the line of AuxLink can make its receiver believe: the receiver as a
\* function of the bytes it reads, and the condition on messages and noise under which
\* what a fault has changed is never taken for another message.

EXTENDS AuxLink

FreshReader == [FreshPort EXCEPT !.rxFlag = TRUE]

\* What of a port decides how it takes the next byte. An idle port forgets the rest.
Reader(p) ==
  IF Restart(p).state = "IDLE" THEN FreshReader
  ELSE [FreshReader EXCEPT !.state = p.state, !.cnt = p.cnt, !.lrc = p.lrc, !.buf = p.buf]

Reads(r, b) == Reader(DataLinkRx(r, b))

\* The verdict on a package, at its last byte: the answer, and the message if it is good.
Good(m) == <<ACK, m>>

Bad == <<NAK, <<>>>>

Verdict(r, b) ==
  IF ~AtLrc(r) THEN <<>> ELSE IF b = r.lrc THEN <<Good(r.buf)>> ELSE <<Bad>>

\* The reader after some bytes, and its verdicts on the way.
Hearing(r, bytes) ==
  LET h[k \in 0..Len(bytes)] ==
        IF k = 0 THEN [reader |-> r, said |-> <<>>]
        ELSE LET now == h[k-1]
             IN [reader |-> Reads(now.reader, bytes[k]),
                 said |-> now.said \o Verdict(now.reader, bytes[k])]
  IN h[Len(bytes)]

After(r, bytes) == Hearing(r, bytes).reader

Said(r, bytes) == Hearing(r, bytes).said

\* What one fault makes of a package. Damage is the first fault, if it occurs at all,
\* and finds a fresh reader.
Lost(x) == {RemoveAt(x, k) : k \in {j \in 1..Len(x) : "lose" \in FaultKinds}}

Damaged(x) ==
  {[x EXCEPT ![k] = b] : k \in {j \in 1..Len(x) : "damage" \in FaultKinds}, b \in Noise}

\* How a package may arrive at a reader.
Transmissions(r, m) ==
  {Package(m)} \cup Lost(Package(m)) \cup (IF r = FreshReader THEN Damaged(Package(m)) ELSE {})

\* A transmission of m is missed, or taken for m, or refused. A reader that has judged it
\* skips the rest of it, and is left where the next one cannot do harm either.
Bears(r, m, x, S) ==
  Said(r, x) # <<>> => Said(r, x) \in {<<Good(m)>>, <<Bad>>} /\ After(r, x) \in S

\* S holds the readers that a judged transmission can leave: the fresh one and those that
\* have taken some of its last bytes for the start of a package.
Harmless(S) ==
  /\ FreshReader \in S
  /\ \A r \in S, m \in Messages : \A x \in Transmissions(r, m) :
       (r = FreshReader /\ x = Package(m)) \/ Bears(r, m, x, S)

\* The receiver has room for every message, and the length bytes for its length.
Fits ==
  \A m \in Messages : Len(m) <= BufferSize /\ Len(m) \div 256^(Len(LenStates) - 1) < 256

\* A alone talks, and one acknowledgement is sent for a package.
OneWay == Talkers = {"A"} /\ Acks = 1

\* Where the link from A to B is a stop-and-wait link.
StopAndWait == OneWay /\ (mode # "STX" => Fits /\ \E S : Harmless(S))
=============================================================================
