------------------------------ MODULE AuxLink ------------------------------
\* The serial link of POSAPI (API_AUX.c, DEV_AUX.c, AUX_DLL.c, AUX_SOH.c,
\* AUX_STX.c): packages with a checksum, one or more acknowledgements for each,
\* retransmission by a timer thread, and a receiver that reads a byte whenever
\* its application polls. Two terminals that run this code are joined by a line
\* that damages bytes. Tor and Tob, the counters of the timer thread, are
\* abstracted to the moment they reach zero. The timer thread and the thread of
\* the calls share the tables without a lock: OS_AUX_ResendPackage, which both
\* call, is two steps, the look at the count and the rest.

EXTENDS Integers, Sequences, SequencesExt

CONSTANTS
  Settings,     \* of the link: values of mode, ackMode and timing
  Messages,     \* what an application sends, each a sequence of bytes
  Acks,         \* acknowledgements for a package (API_AUX.Acks)
  MaxResend,    \* retransmissions (API_AUX.Resend)
  Counts,       \* values of the unsigned count of them: 256 for a UCHAR
  CountSeen,    \* bound: a larger count, which has wrapped, is not looked at again
  BufferSize,   \* longest message accepted (API_AUX.BufferSize)
  Talkers,      \* ends whose application sends
  Posts,        \* bound: messages an application sends, for each timing
  Faults,       \* bound: damaged or lost bytes, for each timing
  Refusals,     \* bound: refused writes
  Noise,        \* bytes that a damaged byte can become
  FaultKinds    \* subset of {"lose", "damage"}

Ends == {"A", "B"}

Other(e) == IF e = "A" THEN "B" ELSE "A"

SOH == 1
STX == 2
ETX == 3
ACK == 6
NAK == 21

Bytes == 0..255

ASSUME AuxAssumption ==
  /\ Settings \subseteq {"DLL", "SOH", "SOH4", "STX"} \X BOOLEAN \X {"timely", "late"}
  /\ Messages \subseteq Seq(Bytes) \ {<<>>}
  /\ Acks \in 1..8 /\ MaxResend \in 0..8
  /\ Counts \in Nat /\ Counts > MaxResend /\ CountSeen \in Nat
  /\ BufferSize \in Nat \ {0}
  /\ Talkers \subseteq Ends
  /\ Posts \in [{"timely", "late"} -> Nat] /\ Faults \in [{"timely", "late"} -> Nat] /\ Refusals \in Nat
  /\ Noise \subseteq Bytes
  /\ FaultKinds \subseteq {"lose", "damage"}

VARIABLES
  mode,         \* link protocol, the same at both ends
  ackMode,      \* os_DLL_ACK_MODE: is the ACK sent after the application has read?
  timing,       \* "timely": a timer expires only when nothing is under way and is
                \* served at once; "late": it may expire, and be served, at any time
  port,         \* os_AUX_ tables of the port at each end
  line,         \* bytes on their way to each end
  due,          \* what the timer thread is about to do: "none", "resend", "tob", or
                \* in OS_AUX_ResendPackage, the NAK flag it has pushed: "clear", "set"
  app,          \* application: "talk", "wait", "again" (about to send again, for a
                \* NAK), "listen", "ready"
  posted,       \* messages given to api_aux_txstring at each end
  outcome,      \* what api_aux_txready said of the last one
  rcvd,         \* messages whose checksum was right
  got,          \* messages read by api_aux_rxstring
  faults,       \* faults so far
  refusals,     \* refused writes so far
  hit           \* has what is on the line to an end been damaged?

settings == <<mode, ackMode, timing>>

history == <<posted, outcome, rcvd, got>>

vars == <<settings, port, line, due, app, history, faults, refusals, hit>>

LenStates ==
  CASE mode = "DLL" -> <<"LEN_L">>
    [] mode = "SOH" -> <<"LEN_L", "LEN_H">>
    [] mode = "SOH4" -> <<"LEN_L", "LEN_L2", "LEN_H", "LEN_H2">>
    [] OTHER -> <<>>

\* os_AUX_Para (Resend, TxFlag, RxFlag), State, Status, NakFlag, the package in
\* the transmit buffer, and the receive state: DataCnt, LRC, the bytes stored,
\* the byte at index 0, and the length of a complete message.
FreshPort ==
  [state |-> "IDLE", status |-> "FREE", resend |-> MaxResend,
   txFlag |-> FALSE, rxFlag |-> FALSE, nak |-> FALSE, tx |-> <<>>,
   cnt |-> 0, lrc |-> 0, buf |-> <<>>, first |-> 0, len |-> 0]

Init ==
  /\ \E s \in Settings : mode = s[1] /\ ackMode = s[2] /\ timing = s[3]
  /\ port = [e \in Ends |-> FreshPort]
  /\ line = [e \in Ends |-> <<>>]
  /\ due = [e \in Ends |-> "none"]
  /\ app = [e \in Ends |-> IF e \in Talkers /\ (e = "A" \/ "A" \notin Talkers)
                           THEN "talk" ELSE "listen"]
  /\ posted = [e \in Ends |-> <<>>]
  /\ outcome = [e \in Ends |-> "none"]
  /\ rcvd = [e \in Ends |-> <<>>]
  /\ got = [e \in Ends |-> <<>>]
  /\ faults = 0
  /\ refusals = 0
  /\ hit = [e \in Ends |-> FALSE]

----------------------------------------------------------------------------
\* Checksum and packages

Bit(b, k) == (b \div 2^k) % 2

Xor(a, b) ==
  LET low[k \in 0..8] ==
        IF k = 0 THEN 0
        ELSE low[k-1] + (IF Bit(a, k-1) # Bit(b, k-1) THEN 2^(k-1) ELSE 0)
  IN low[8]

XorAll(bytes) ==
  LET sum[k \in 0..Len(bytes)] == IF k = 0 THEN 0 ELSE Xor(sum[k-1], bytes[k])
  IN sum[Len(bytes)]

\* The length bytes, low byte first.
LenField(n) == [k \in 1..Len(LenStates) |-> (n \div 256^(k-1)) % 256]

Package(m) ==
  IF mode = "STX"
  THEN <<STX>> \o m \o <<ETX, XorAll(m \o <<ETX>>)>>
  ELSE LET body == LenField(Len(m)) \o m
       IN <<SOH>> \o body \o <<XorAll(body)>>

----------------------------------------------------------------------------
\* Receiver. Each operator gives the port after the bytes it takes.

Repeat(b, n) == [i \in 1..n |-> b]

\* The first poll after a package starts a new one.
Restart(p) ==
  IF p.rxFlag THEN p
  ELSE [p EXCEPT !.state = "IDLE", !.rxFlag = TRUE, !.cnt = 0, !.lrc = 0,
                 !.buf = <<>>, !.len = 0]

Discard(p) == [p EXCEPT !.len = 0, !.rxFlag = FALSE, !.state = "IDLE"]

RxIdle(p, b) ==
  IF b = (IF mode = "STX" THEN STX ELSE SOH)
  THEN [p EXCEPT !.len = 0, !.cnt = 0, !.lrc = 0, !.buf = <<>>,
                 !.state = IF mode = "STX" THEN "DATA" ELSE "LEN_L"]
  ELSE p

RxLen(p, b) ==
  LET k == CHOOSE j \in 1..Len(LenStates) : LenStates[j] = p.state
      n == p.cnt + b * 256^(k-1)
      next == IF k < Len(LenStates) THEN LenStates[k+1]
              ELSE IF n # 0 THEN "DATA" ELSE "IDLE"
  IN [p EXCEPT !.cnt = n, !.lrc = Xor(@, b), !.state = next]

RxData(p, b) ==
  IF mode = "STX" /\ b = ETX
  THEN [p EXCEPT !.lrc = Xor(@, b), !.state = "LRC"]
  ELSE [p EXCEPT !.lrc = Xor(@, b), !.buf = Append(@, b),
                 !.state = IF mode # "STX" /\ Len(p.buf) + 1 = p.cnt
                           THEN "LRC" ELSE "DATA"]

\* Mutant: the receiver goes on, as the STX one does.
RxEndFlag(p) == [p EXCEPT !.state = "IDLE"]

RxEnd(p) == [p EXCEPT !.rxFlag = FALSE, !.state = "IDLE"]

\* A good package leaves the STX receiver in the state it was in.
RxLrc(p, b) ==
  IF b = p.lrc
  THEN LET q == [p EXCEPT !.len = Len(p.buf)]
       IN IF mode = "STX" THEN q ELSE RxEnd(q)
  ELSE RxEnd(p)

TooLong(p) == Len(p.buf) > BufferSize

DataLinkRx(p, b) ==
  IF p.state = "WAIT_ACK" THEN p
  ELSE IF TooLong(p) THEN Discard(p)
  ELSE CASE p.state = "IDLE" -> RxIdle(p, b)
         [] p.state \in ToSet(LenStates) -> RxLen(p, b)
         [] p.state = "DATA" -> RxData(p, b)
         [] p.state = "LRC" -> RxLrc(p, b)
         [] OTHER -> p

AtLrc(p) == p.state = "LRC" /\ ~TooLong(p)

\* Mutant: a bad checksum is acknowledged too.
AnswerAlways(p, b) == IF AtLrc(p) THEN Repeat(ACK, Acks) ELSE <<>>

----------------------------------------------------------------------------
\* Sender. Each operator relates the port to a port and the bytes it writes.

\* OS_AUX_DataLinkAck_DLL: what a byte is answered with.
Answer(p, b) ==
  IF ~AtLrc(p) THEN <<>>
  ELSE IF b # p.lrc THEN <<NAK>>
  ELSE IF ackMode THEN <<>> ELSE Repeat(ACK, Acks)

Sent(q, bytes) == [port |-> q, bytes |-> bytes]

CanWriteFail == refusals < Refusals

\* Mutant: the timer of a package sent is not enabled.
SendPackageOnce(p) == {Sent([p EXCEPT !.nak = FALSE], p.tx)}

\* BSP_UART_Write fails, or the package is on the line and Tor runs again.
SendPackage(p) ==
  {Sent([p EXCEPT !.nak = FALSE, !.txFlag = TRUE], p.tx)}
  \cup IF CanWriteFail THEN {Sent([p EXCEPT !.nak = FALSE], <<>>)} ELSE {}

\* Mutant: the port is left waiting, as it was before 2025-02-18.
ExhaustedWaits(p) == [p EXCEPT !.txFlag = FALSE]

Exhausted(p) == [p EXCEPT !.txFlag = FALSE, !.state = "IDLE"]

\* Mutant: the count is not looked at.
CanResendAlways(p) == TRUE

CanResend(p) == p.resend > 0

\* The count goes down and the package is sent. The NAK flag that was pushed
\* survives.
ResendPackage(p, flag) ==
  {Sent([r.port EXCEPT !.nak = flag], r.bytes) :
     r \in SendPackage([p EXCEPT !.resend = (@ - 1) % Counts])}

\* Mutant: the acknowledgement leaves the port waiting for it.
FreeWaiting(p) == [p EXCEPT !.status = "FREE"]

Free(p) == [p EXCEPT !.state = "IDLE", !.status = "FREE"]

\* The SOH has been read: the receiver starts on whatever byte is at index 0.
TakeSoh(p) ==
  LET q == Restart([Free(p) EXCEPT !.rxFlag = FALSE])
  IN IF q.first = SOH THEN [q EXCEPT !.state = "LEN_L"] ELSE q

\* Is the answer a NAK for which the package is sent once more?
Resends(p, b) == b = NAK /\ ~p.nak /\ CanResend(p)

TakeNak(p) ==
  IF p.nak THEN [p EXCEPT !.txFlag = TRUE]
  ELSE LET q == [p EXCEPT !.nak = TRUE]
       IN IF CanResend(p) THEN q ELSE [Exhausted(q) EXCEPT !.status = "ERROR"]

TakeAnswer(p, b) ==
  CASE b = ACK -> Free(p)
    [] b = NAK -> TakeNak(p)
    [] b = SOH -> TakeSoh(p)
    [] OTHER -> [p EXCEPT !.txFlag = TRUE]

\* An unknown answer is flushed by a second read, which takes one more byte.
Taken(e) ==
  IF line[e] = <<>> THEN 0
  ELSE IF line[e][1] \in {ACK, NAK, SOH} \/ Len(line[e]) = 1 THEN 1 ELSE 2

----------------------------------------------------------------------------
\* Calls of the application

\* On a timely system neither of the two threads of an end runs in the middle of
\* what the other does.
CanRun(e) == timing = "late" \/ due[e] = "none"

CanLook(e) == timing = "late" \/ app[e] # "again"

\* A transmission of which nothing was written.
CountRefusal(r) == refusals' = refusals + IF r.bytes = <<>> THEN 1 ELSE 0

TxString(e, m) ==
  /\ app[e] = "talk" /\ CanRun(e)
  /\ Len(posted[e]) < Posts[timing]
  /\ LET p == [port[e] EXCEPT !.status = "BUSY", !.tx = Package(m),
                             !.resend = MaxResend, !.state = "WAIT_ACK"]
     IN \E r \in SendPackage(p) :
          /\ port' = [port EXCEPT ![e] = r.port]
          /\ line' = [line EXCEPT ![Other(e)] = @ \o r.bytes]
          /\ app' = [app EXCEPT ![e] = IF r.bytes = <<>> THEN "talk" ELSE "wait"]
          /\ outcome' = [outcome EXCEPT ![e] = IF r.bytes = <<>> THEN "failed" ELSE "pending"]
          /\ CountRefusal(r)
  /\ posted' = [posted EXCEPT ![e] = Append(@, m)]
  /\ UNCHANGED <<settings, due, rcvd, got, faults, hit>>

\* The next turn is the other end's, if it talks too.
AfterTalk(e) == IF Other(e) \in Talkers THEN "listen" ELSE "talk"

AfterListen(e) == IF e \in Talkers THEN "talk" ELSE "listen"

\* The status of port p, which api_aux_txready returns; an error is told once.
Told(e, p) ==
  /\ port' = [port EXCEPT ![e] = IF p.status = "ERROR" THEN [p EXCEPT !.status = "FREE"] ELSE p]
  /\ app' = [app EXCEPT ![e] = CASE p.status = "FREE" -> AfterTalk(e)
                                 [] p.status = "ERROR" -> "talk"
                                 [] OTHER -> "wait"]
  /\ outcome' = [outcome EXCEPT ![e] = CASE p.status = "FREE" -> "ok"
                                         [] p.status = "ERROR" -> "failed"
                                         [] OTHER -> @]

\* api_aux_txready: it takes an answer, if there is one.
TxReady(e) ==
  /\ app[e] = "wait" /\ CanRun(e)
  /\ LET p == IF line[e] = <<>> THEN port[e] ELSE TakeAnswer(port[e], line[e][1])
     IN IF line[e] # <<>> /\ Resends(port[e], line[e][1])
        THEN /\ port' = [port EXCEPT ![e] = p]
             /\ app' = [app EXCEPT ![e] = "again"]
             /\ UNCHANGED outcome
        ELSE Told(e, p)
  /\ line' = [line EXCEPT ![e] = SubSeq(@, Taken(e) + 1, Len(@))]
  /\ UNCHANGED <<settings, due, posted, rcvd, got, faults, refusals>>
  /\ hit' = [hit EXCEPT ![e] = @ /\ line'[e] # <<>>]

\* The rest of it, if the answer is a NAK.
TxAgain(e) ==
  /\ app[e] = "again"
  /\ \E r \in ResendPackage(port[e], TRUE) :
       /\ Told(e, IF r.bytes = <<>> THEN [r.port EXCEPT !.status = "ERROR"] ELSE r.port)
       /\ line' = [line EXCEPT ![Other(e)] = @ \o r.bytes]
       /\ CountRefusal(r)
  /\ UNCHANGED <<settings, due, posted, rcvd, got, faults, hit>>

\* An application that is told "not ready" for ever stops asking in the end.
GiveUp(e) ==
  /\ app[e] = "wait"
  /\ port[e].state # "WAIT_ACK" /\ line[e] = <<>> /\ due[e] = "none"
  /\ app' = [app EXCEPT ![e] = "talk"]
  /\ outcome' = [outcome EXCEPT ![e] = "failed"]
  /\ UNCHANGED <<settings, port, line, due, posted, rcvd, got, faults, refusals, hit>>

\* api_aux_rxready: one byte, which is lost if the port waits for an answer.
RxReady(e) ==
  /\ app[e] = "listen" /\ CanRun(e)
  /\ LET p == Restart(port[e])
         b == Head(line[e])
         q == [p EXCEPT !.first = IF p.buf = <<>> THEN b ELSE @]
         r == DataLinkRx(q, b)
     IN /\ IF line[e] = <<>>
           THEN /\ port' = [port EXCEPT ![e] = p]
                /\ UNCHANGED <<line, rcvd>>
           ELSE /\ port' = [port EXCEPT ![e] = r]
                /\ line' = [line EXCEPT ![e] = IF mode = "STX" /\ TooLong(q) THEN <<>> ELSE Tail(@),
                                        ![Other(e)] = @ \o Answer(q, b)]
                /\ rcvd' = [rcvd EXCEPT ![e] = IF AtLrc(q) /\ r.len > 0 THEN Append(@, r.buf) ELSE @]
        /\ app' = [app EXCEPT ![e] = IF port'[e].len > 0 THEN "ready" ELSE "listen"]
  /\ UNCHANGED <<settings, due, posted, outcome, got, faults, refusals>>
  /\ hit' = [hit EXCEPT ![e] = @ /\ line'[e] # <<>>]

\* api_aux_rxstring: the message, if it is still there.
RxString(e) ==
  /\ app[e] = "ready" /\ CanRun(e)
  /\ IF port[e].len > 0
     THEN /\ got' = [got EXCEPT ![e] = Append(@, port[e].buf)]
          /\ port' = [port EXCEPT ![e].len = 0, ![e].buf = <<>>, ![e].first = 0]
          /\ line' = [line EXCEPT ![Other(e)] = @ \o IF ackMode THEN Repeat(ACK, Acks) ELSE <<>>]
          /\ app' = [app EXCEPT ![e] = AfterListen(e)]
     ELSE /\ app' = [app EXCEPT ![e] = "listen"]
          /\ UNCHANGED <<got, port, line>>
  /\ UNCHANGED <<settings, due, posted, outcome, rcvd, faults, refusals, hit>>

----------------------------------------------------------------------------
\* The timer thread, in steps: it looks at the port, at the count, then it acts.

Quiet == \A e \in Ends : line[e] = <<>>

\* Tor is longer than Tob and than the time an application takes to read.
TorDue(e) ==
  timing = "timely" =>
    /\ Quiet
    /\ port[Other(e)].state = "IDLE" \/ ~port[Other(e)].rxFlag
    /\ app[Other(e)] # "ready"

\* Tob is longer than the time between two bytes or two polls.
TobDue(e) == timing = "timely" => line[e] = <<>>

TimerLooks(e) ==
  /\ due[e] = "none" /\ CanLook(e)
  /\ port[e].resend <= CountSeen
  /\ \/ /\ port[e].state = "WAIT_ACK" /\ port[e].txFlag /\ TorDue(e)
        /\ due' = [due EXCEPT ![e] = "resend"]
     \/ /\ port[e].state # "WAIT_ACK" /\ port[e].rxFlag /\ TobDue(e)
        /\ due' = [due EXCEPT ![e] = "tob"]
  /\ UNCHANGED <<settings, port, line, app, history, faults, refusals, hit>>

TimerCounts(e) ==
  /\ due[e] = "resend"
  /\ IF CanResend(port[e])
     THEN /\ due' = [due EXCEPT ![e] = IF port[e].nak THEN "set" ELSE "clear"]
          /\ UNCHANGED port
     ELSE /\ due' = [due EXCEPT ![e] = "none"]
          /\ port' = [port EXCEPT ![e] = Exhausted(@)]
  /\ UNCHANGED <<settings, line, app, history, faults, refusals, hit>>

TimerResends(e) ==
  /\ due[e] \in {"clear", "set"}
  /\ \E r \in ResendPackage(port[e], due[e] = "set") :
       /\ port' = [port EXCEPT ![e] = r.port]
       /\ line' = [line EXCEPT ![Other(e)] = @ \o r.bytes]
       /\ CountRefusal(r)
  /\ due' = [due EXCEPT ![e] = "none"]
  /\ UNCHANGED <<settings, app, history, faults, hit>>

\* OS_AUX_DataLinkRxTOB also resets the index.
TimerDiscards(e) ==
  /\ due[e] = "tob"
  /\ port' = [port EXCEPT ![e] = [Discard(@) EXCEPT !.buf = <<>>]]
  /\ due' = [due EXCEPT ![e] = "none"]
  /\ UNCHANGED <<settings, line, app, history, faults, refusals, hit>>

----------------------------------------------------------------------------
\* The line: the next byte is lost or damaged, once in a transmission, for two
\* faults can cancel in the checksum. It forges no acknowledgement.

Forged(e) == IF e \in Talkers THEN {ACK, SOH} ELSE {}

Strike(e, bytes) ==
  /\ faults < Faults[timing] /\ line[e] # <<>> /\ ~hit[e]
  /\ line' = [line EXCEPT ![e] = bytes]
  /\ faults' = faults + 1
  /\ hit' = [hit EXCEPT ![e] = bytes # <<>>]
  /\ UNCHANGED <<settings, port, due, app, history, refusals>>

Lose(e) == "lose" \in FaultKinds /\ line[e] # <<>> /\ Strike(e, Tail(line[e]))

Damage(e) ==
  /\ "damage" \in FaultKinds /\ faults = 0 /\ line[e] # <<>>
  /\ \E b \in (Noise \ Forged(e)) \ {line[e][1]} : Strike(e, [line[e] EXCEPT ![1] = b])

\* Every message has been sent and read.
Done ==
  /\ \A e \in Ends : app[e] \notin {"wait", "again", "ready"}
  /\ \A e \in Talkers : app[e] = "talk" => Len(posted[e]) = Posts[timing]
  /\ Quiet
  /\ UNCHANGED vars

Call(e) ==
  (\E m \in Messages : TxString(e, m)) \/ TxReady(e) \/ TxAgain(e) \/ GiveUp(e)
  \/ RxReady(e) \/ RxString(e)

Timer(e) == TimerLooks(e) \/ TimerCounts(e) \/ TimerResends(e) \/ TimerDiscards(e)

Next == (\E e \in Ends : Call(e) \/ Timer(e) \/ Lose(e) \/ Damage(e)) \/ Done

Spec == Init /\ [][Next]_vars

\* The applications poll, the timer thread runs.
Fairness ==
  \A e \in Ends :
    /\ WF_vars(TxReady(e)) /\ WF_vars(TxAgain(e)) /\ WF_vars(GiveUp(e))
    /\ WF_vars(RxReady(e)) /\ WF_vars(RxString(e))
    /\ WF_vars(Timer(e))

FairSpec == Spec /\ Fairness

----------------------------------------------------------------------------
\* Properties

\* Every table keeps its type. On a timely system the count of retransmissions does
\* not wrap; the two threads of a late one can both find it at one, and take it from
\* zero to the largest value of its type.
TypeOK ==
  /\ settings \in Settings
  /\ \A e \in Ends :
       /\ port[e].state \in {"IDLE", "LEN_L", "LEN_L2", "LEN_H", "LEN_H2", "DATA", "LRC", "WAIT_ACK"}
       /\ port[e].status \in {"FREE", "BUSY", "ERROR"}
       /\ port[e].resend \in 0..(IF timing = "timely" THEN MaxResend ELSE Counts - 1)
       /\ port[e].txFlag \in BOOLEAN /\ port[e].rxFlag \in BOOLEAN /\ port[e].nak \in BOOLEAN
       /\ port[e].lrc \in Bytes /\ port[e].first \in Bytes
       /\ port[e].len \in {0, Len(port[e].buf)}
       /\ Len(port[e].buf) <= BufferSize + 1
       /\ due[e] \in {"none", "resend", "clear", "set", "tob"}
       /\ app[e] \in {"talk", "wait", "again", "listen", "ready"}
       /\ outcome[e] \in {"none", "pending", "ok", "failed"}
       /\ got[e] \in Seq(Seq(Bytes)) /\ rcvd[e] \in Seq(Seq(Bytes))
  /\ faults \in 0..Faults[timing] /\ refusals \in 0..Refusals /\ hit \in [Ends -> BOOLEAN]

\* Where a stop-and-wait link is promised. The STX receiver does not return to
\* its idle state after a good package: the next one is refused, or acknowledged
\* unread if its first byte happens to be the old checksum.
Reliable == timing = "timely" /\ mode # "STX" /\ refusals = 0

\* A message the receiver has acknowledged reaches its application, however slow
\* the application is between api_aux_rxready and api_aux_rxstring: the TOB of
\* the timer thread does not run once a package is complete. (The STX receiver
\* leaves it running.)
AcknowledgedKept ==
  Reliable =>
    \A e \in Ends :
      rcvd[e] = got[e] \o (IF port[e].len > 0 THEN <<port[e].buf>> ELSE <<>>)

\* Each copy that arrives beyond the messages posted is the price of a fault:
\* nothing is retransmitted that was acknowledged.
DuplicatesPaid ==
  Reliable =>
    \A e \in Ends : Len(rcvd[Other(e)]) <= Len(posted[e]) + faults

\* In a timely system the link from A to B is a stop-and-wait link: what
\* api_aux_txready confirms has arrived, in order, possibly more than once.
D == INSTANCE Delivery WITH posted <- posted["A"], rcvd <- rcvd["B"], outcome <- outcome["A"]

DeliveryRefined ==
  /\ Reliable => D!Init
  /\ [][Reliable => D!Next]_(D!vars)

\* Two retransmissions for each fault are enough to have every message confirmed
\* in the end: the one sent at once for a NAK can be spoilt by what is left of
\* the damaged package, the one after Tor finds the receiver idle.
Repaired ==
  \A e \in Ends :
    outcome[e] = "pending" ~> (outcome[e] = "ok" \/ ~Reliable \/ faults > MaxResend \div 2)

\* A sender does not wait for an answer for ever, whatever the line loses and
\* however late the timer thread is: the count of retransmissions ends the wait,
\* unless both threads have taken it down from one.
WaitEnds ==
  \A e \in Ends :
    outcome[e] = "pending" ~> (outcome[e] # "pending" \/ port[e].resend > MaxResend)

\* An SOH read while an answer is awaited comes from a peer that has the message.
SohAcknowledges ==
  [][\A e \in Ends :
       app[e] = "wait" /\ line[e] # <<>> /\ line[e][1] = SOH /\ outcome'[e] = "ok" =>
         rcvd[Other(e)] # <<>> /\ Last(rcvd[Other(e)]) = Last(posted[e])]_vars
=============================================================================
