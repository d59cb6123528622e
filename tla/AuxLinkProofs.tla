--------------------------- MODULE AuxLinkProofs ---------------------------
(***************************************************************************)
(* What holds of the serial link for every protocol, any messages, noise,  *)
(* number of acknowledgements and of retransmissions, and whichever ends   *)
(* talk: the types, among them the bound of the receive buffer and the     *)
(* count of retransmissions, and that what was acknowledged is kept until  *)
(* the application has read it. Where one end talks and a fault makes no   *)
(* message of another (StopAndWait), faults pay for duplicates and the     *)
(* link implements Delivery.                                               *)
(***************************************************************************)
EXTENDS AuxNoise, Induction, TLAPS

----------------------------------------------------------------------------
\* Checksums and packages are bytes.

LEMMA Powers ==
  /\ 2^0 = 1 /\ 2^1 = 2 /\ 2^2 = 4 /\ 2^3 = 8
  /\ 2^4 = 16 /\ 2^5 = 32 /\ 2^6 = 64 /\ 2^7 = 128
  /\ 256^0 = 1 /\ 256^1 = 256 /\ 256^2 = 65536 /\ 256^3 = 16777216
OBVIOUS

\* low is what Xor computes.
IsLow(low, a, b) ==
  low = [k \in 0..8 |->
           IF k = 0 THEN 0
           ELSE low[k-1] + (IF Bit(a, k-1) # Bit(b, k-1) THEN 2^(k-1) ELSE 0)]

LEMMA LowExists ==
  ASSUME NEW a, NEW b
  PROVE  \E low : IsLow(low, a, b)
<1> DEFINE d(k) == IF Bit(a, k) # Bit(b, k) THEN 2^k ELSE 0
           G == [x \in Nat \X Nat |-> IF x[1] \in 1..8 THEN x[2] + d(x[1] - 1) ELSE x[2]]
<1>1. \A k \in 0..7 : d(k) \in Nat
  <2>1. \A k \in 0..7 : 2^k \in Nat
    <3> SUFFICES ASSUME NEW k \in 0..7 PROVE 2^k \in Nat
      OBVIOUS
    <3>1. \/ k = 0 \/ k = 1 \/ k = 2 \/ k = 3
          \/ k = 4 \/ k = 5 \/ k = 6 \/ k = 7
      OBVIOUS
    <3>2. /\ 2^0 \in Nat /\ 2^1 \in Nat /\ 2^2 \in Nat /\ 2^3 \in Nat
          /\ 2^4 \in Nat /\ 2^5 \in Nat /\ 2^6 \in Nat /\ 2^7 \in Nat
      BY Powers
    <3> QED BY <3>1, <3>2
  <2> QED BY <2>1
<1> HIDE DEF d
<1>2. G \in [Nat \X Nat -> Nat]
  <2> SUFFICES ASSUME NEW x \in Nat \X Nat
               PROVE  (IF x[1] \in 1..8 THEN x[2] + d(x[1] - 1) ELSE x[2]) \in Nat
    OBVIOUS
  <2>1. x[1] \in 1..8 => d(x[1] - 1) \in Nat
    BY <1>1
  <2> QED BY <2>1
<1>3. \A k \in 1..8, v \in Nat : G[<<k, v>>] = v + d(k - 1)
  OBVIOUS
<1> HIDE DEF G
<1>4. PICK f : Follows(f, Nat, 0, G, 8)
  BY <1>2, Recursion
<1>5. f = [k \in 0..8 |-> IF k = 0 THEN 0 ELSE f[k-1] + d(k-1)]
  <2>1. \A k \in 0..8 : f[k] = IF k = 0 THEN 0 ELSE f[k-1] + d(k-1)
    <3> SUFFICES ASSUME NEW k \in 1..8 PROVE f[k] = f[k-1] + d(k-1)
      BY <1>4 DEF Follows
    <3>1. f[k-1] \in Nat
      BY <1>4 DEF Follows
    <3> QED BY <1>3, <1>4, <3>1 DEF Follows
  <2>2. f = [k \in 0..8 |-> f[k]]
    BY <1>4 DEF Follows
  <2> QED BY <2>1, <2>2, Zenon
<1> QED BY <1>5, Zenon DEF IsLow, d

\* The exclusive or of any two numbers' low bytes is a byte.
LEMMA XorType ==
  ASSUME NEW a, NEW b
  PROVE  Xor(a, b) \in Bytes
<1> DEFINE low == CHOOSE f : IsLow(f, a, b)
<1>1. IsLow(low, a, b)
  BY LowExists, Zenon
<1>2. Xor(a, b) = low[8]
  BY Zenon DEF Xor, IsLow
<1> HIDE DEF low
<1>3. /\ low[0] = 0
      /\ \A k \in 1..8 : low[k] = low[k-1] + (IF Bit(a, k-1) # Bit(b, k-1) THEN 2^(k-1) ELSE 0)
  BY <1>1 DEF IsLow
<1>5. low[1] \in 0..1
  <2>1. low[1] = low[1-1] + (IF Bit(a, 1-1) # Bit(b, 1-1) THEN 2^(1-1) ELSE 0)
    BY <1>3
  <2> QED BY <1>3, <2>1, Powers
<1>6. low[2] \in 0..3
  <2>1. low[2] = low[2-1] + (IF Bit(a, 2-1) # Bit(b, 2-1) THEN 2^(2-1) ELSE 0)
    BY <1>3
  <2> QED BY <1>5, <2>1, Powers
<1>7. low[3] \in 0..7
  <2>1. low[3] = low[3-1] + (IF Bit(a, 3-1) # Bit(b, 3-1) THEN 2^(3-1) ELSE 0)
    BY <1>3
  <2> QED BY <1>6, <2>1, Powers
<1>8. low[4] \in 0..15
  <2>1. low[4] = low[4-1] + (IF Bit(a, 4-1) # Bit(b, 4-1) THEN 2^(4-1) ELSE 0)
    BY <1>3
  <2> QED BY <1>7, <2>1, Powers
<1>9. low[5] \in 0..31
  <2>1. low[5] = low[5-1] + (IF Bit(a, 5-1) # Bit(b, 5-1) THEN 2^(5-1) ELSE 0)
    BY <1>3
  <2> QED BY <1>8, <2>1, Powers
<1>10. low[6] \in 0..63
  <2>1. low[6] = low[6-1] + (IF Bit(a, 6-1) # Bit(b, 6-1) THEN 2^(6-1) ELSE 0)
    BY <1>3
  <2> QED BY <1>9, <2>1, Powers
<1>11. low[7] \in 0..127
  <2>1. low[7] = low[7-1] + (IF Bit(a, 7-1) # Bit(b, 7-1) THEN 2^(7-1) ELSE 0)
    BY <1>3
  <2> QED BY <1>10, <2>1, Powers
<1>12. low[8] \in 0..255
  <2>1. low[8] = low[8-1] + (IF Bit(a, 8-1) # Bit(b, 8-1) THEN 2^(8-1) ELSE 0)
    BY <1>3
  <2> QED BY <1>11, <2>1, Powers
<1> QED BY <1>2, <1>12 DEF Bytes

\* sum is what XorAll computes.
IsSum(sum, bytes) ==
  sum = [k \in 0..Len(bytes) |-> IF k = 0 THEN 0 ELSE Xor(sum[k-1], bytes[k])]

LEMMA XorAllType ==
  ASSUME NEW bytes, Len(bytes) \in Nat
  PROVE  XorAll(bytes) \in Bytes
<1> DEFINE n == Len(bytes)
           G == [x \in Nat \X Bytes |-> Xor(x[2], bytes[x[1]])]
           sum == CHOOSE f : IsSum(f, bytes)
<1>1. G \in [Nat \X Bytes -> Bytes]
  BY XorType
<1>2. \A k \in Nat, v \in Bytes : G[<<k, v>>] = Xor(v, bytes[k])
  OBVIOUS
<1>3. 0 \in Bytes /\ n \in Nat
  BY DEF Bytes
<1> HIDE DEF G, n
<1>4. PICK f : Follows(f, Bytes, 0, G, n)
  BY <1>1, <1>3, Recursion
<1>5. IsSum(f, bytes)
  <2>1. \A k \in 0..n : f[k] = IF k = 0 THEN 0 ELSE Xor(f[k-1], bytes[k])
    <3> SUFFICES ASSUME NEW k \in 1..n PROVE f[k] = Xor(f[k-1], bytes[k])
      BY <1>3, <1>4 DEF Follows
    <3>1. f[k-1] \in Bytes /\ k \in Nat
      BY <1>3, <1>4 DEF Follows
    <3> QED BY <1>2, <1>4, <3>1 DEF Follows
  <2>2. f = [k \in 0..n |-> f[k]]
    BY <1>4 DEF Follows
  <2> QED BY <2>1, <2>2, Zenon DEF IsSum, n
<1>6. IsSum(sum, bytes)
  BY <1>5, Zenon
<1>7. XorAll(bytes) = sum[n]
  BY Zenon DEF XorAll, IsSum, n
<1> HIDE DEF sum
<1>8. sum[n] = IF n = 0 THEN 0 ELSE Xor(sum[n-1], bytes[n])
  BY <1>3, <1>6, SMTT(30) DEF IsSum, n
<1> QED BY <1>3, <1>7, <1>8, XorType

LEMMA SettingsFacts ==
  ASSUME settings \in Settings
  PROVE  /\ mode \in {"DLL", "SOH", "SOH4", "STX"} /\ ackMode \in BOOLEAN
         /\ timing \in {"timely", "late"} /\ Faults[timing] \in Nat
         /\ BufferSize \in Nat \ {0} /\ MaxResend \in Nat /\ Refusals \in Nat
         /\ Len(LenStates) \in 0..4
         /\ LenStates \in Seq({"LEN_L", "LEN_L2", "LEN_H", "LEN_H2"})
<1>1. settings \in {"DLL", "SOH", "SOH4", "STX"} \X BOOLEAN \X {"timely", "late"}
  BY AuxAssumption
<1>2. mode \in {"DLL", "SOH", "SOH4", "STX"} /\ ackMode \in BOOLEAN /\ timing \in {"timely", "late"}
  BY <1>1 DEF settings
<1>3. Faults[timing] \in Nat
  BY <1>2, AuxAssumption
<1>4. BufferSize \in Nat \ {0} /\ MaxResend \in Nat /\ Refusals \in Nat
  BY AuxAssumption
<1>5. /\ Len(LenStates) \in 0..4
      /\ LenStates \in Seq({"LEN_L", "LEN_L2", "LEN_H", "LEN_H2"})
  <2>1. CASE mode = "DLL"
    BY <2>1 DEF LenStates
  <2>2. CASE mode = "SOH"
    BY <2>2 DEF LenStates
  <2>3. CASE mode = "SOH4"
    BY <2>3 DEF LenStates
  <2>4. CASE mode = "STX"
    BY <2>4 DEF LenStates
  <2> QED BY <1>2, <2>1, <2>2, <2>3, <2>4
<1> QED BY <1>2, <1>3, <1>4, <1>5

\* A package is a sequence of bytes, and not empty.
LEMMA PackageType ==
  ASSUME settings \in Settings, NEW m \in Messages
  PROVE  Package(m) \in Seq(Bytes) /\ Package(m) # <<>>
<1>1. m \in Seq(Bytes) /\ SOH \in Bytes /\ STX \in Bytes /\ ETX \in Bytes
  BY AuxAssumption DEF SOH, STX, ETX, Bytes
<1>2. CASE mode = "STX"
  <2>1. XorAll(m \o <<ETX>>) \in Bytes
    BY <1>1, XorAllType
  <2> DEFINE x == XorAll(m \o <<ETX>>)
  <2> HIDE DEF x
  <2>2. Package(m) = <<STX>> \o m \o <<ETX, x>>
    BY <1>2 DEF Package, x
  <2>3. <<STX>> \o m \o <<ETX, x>> \in Seq(Bytes) /\ Len(<<STX>> \o m \o <<ETX, x>>) > 0
    BY <1>1, <2>1 DEF x
  <2> QED BY <2>2, <2>3
<1>3. CASE mode # "STX"
  <2> DEFINE body == LenField(Len(m)) \o m
             x == XorAll(body)
  <2>1. LenField(Len(m)) \in Seq(Bytes)
    <3>1. \A k \in 1..4 : 256^(k-1) \in Nat \ {0}
      <4> SUFFICES ASSUME NEW k \in 1..4 PROVE 256^(k-1) \in Nat \ {0}
        OBVIOUS
      <4>1. CASE k = 1
        BY <4>1, Powers
      <4>2. CASE k = 2
        BY <4>2, Powers
      <4>3. CASE k = 3
        BY <4>3, Powers
      <4>4. CASE k = 4
        BY <4>4, Powers
      <4> QED BY <4>1, <4>2, <4>3, <4>4
    <3>2. \A n \in Nat, d \in Nat \ {0} : (n \div d) % 256 \in Bytes
      BY DEF Bytes
    <3>3. \A k \in 1..Len(LenStates) : (Len(m) \div 256^(k-1)) % 256 \in Bytes
      <4> SUFFICES ASSUME NEW k \in 1..Len(LenStates)
                   PROVE  (Len(m) \div 256^(k-1)) % 256 \in Bytes
        OBVIOUS
      <4>1. k \in 1..4 /\ Len(m) \in Nat
        <5>1. PICK n \in 0..4 : n = Len(LenStates)
          BY SettingsFacts
        <5>2. k \in 1..n
          BY <5>1
        <5>3. Len(m) \in Nat
          BY <1>1
        <5> QED BY <5>2, <5>3
      <4> QED BY <3>1, <3>2, <4>1, ZenonT(30)
    <3>4. Len(LenStates) \in Nat
      BY SettingsFacts
    <3> QED BY <3>3, <3>4 DEF LenField
  <2>2. body \in Seq(Bytes)
    BY <1>1, <2>1
  <2> HIDE DEF body
  <2>3. x \in Bytes
    BY <2>2, XorAllType
  <2> HIDE DEF x
  <2>4. Package(m) = <<SOH>> \o body \o <<x>>
    BY <1>3 DEF Package, body, x
  <2>5. <<SOH>> \o body \o <<x>> \in Seq(Bytes) /\ Len(<<SOH>> \o body \o <<x>>) > 0
    BY <1>1, <2>2, <2>3
  <2> QED BY <2>4, <2>5
<1> QED BY <1>2, <1>3

----------------------------------------------------------------------------
\* The tables of a port.

States == {"IDLE", "LEN_L", "LEN_L2", "LEN_H", "LEN_H2", "DATA", "LRC", "WAIT_ACK"}

Ports ==
  [state : States, status : {"FREE", "BUSY", "ERROR"}, resend : 0..(Counts-1),
   txFlag : BOOLEAN, rxFlag : BOOLEAN, nak : BOOLEAN, tx : Seq(Bytes),
   cnt : Nat, lrc : Bytes, buf : Seq(Bytes), first : Bytes, len : Nat]

\* No byte is stored behind the one that makes a message too long.
PortOK(p) == p \in Ports /\ Len(p.buf) <= BufferSize + 1 /\ p.len \in {0, Len(p.buf)}

LEMMA RestartOK ==
  ASSUME NEW p, PortOK(p), settings \in Settings
  PROVE  /\ PortOK(Restart(p)) /\ Restart(p).tx = p.tx /\ Restart(p).rxFlag
         /\ Restart(p).len \in {0, p.len} /\ Restart(p).state \in {p.state, "IDLE"}
<1>1. CASE p.rxFlag
  BY <1>1 DEF Restart
<1>2. CASE ~p.rxFlag
  <2> DEFINE q == [p EXCEPT !.state = "IDLE", !.rxFlag = TRUE, !.cnt = 0, !.lrc = 0,
                            !.buf = <<>>, !.len = 0]
  <2>1. Restart(p) = q
    BY <1>2 DEF Restart
  <2>2. 0 \in Bytes /\ <<>> \in Seq(Bytes) /\ Len(<<>>) = 0 /\ BufferSize \in Nat
    BY SettingsFacts DEF Bytes
  <2>3. q \in Ports /\ q.buf = <<>> /\ q.len = 0 /\ q.tx = p.tx /\ q.rxFlag /\ q.state = "IDLE"
    BY <2>2 DEF PortOK, Ports, States
  <2> HIDE DEF q
  <2> QED BY <2>1, <2>2, <2>3 DEF PortOK
<1> QED BY <1>1, <1>2

\* A byte keeps the tables of a port that holds no complete message, and only
\* the last byte of a package completes one.
LEMMA DataLinkRxOK ==
  ASSUME NEW p, PortOK(p), p.len = 0, NEW b \in Bytes, settings \in Settings
  PROVE  /\ PortOK(DataLinkRx(p, b)) /\ DataLinkRx(p, b).tx = p.tx
         /\ DataLinkRx(p, b).state = "WAIT_ACK" => p.state = "WAIT_ACK"
         /\ DataLinkRx(p, b).len > 0 => AtLrc(p)
         /\ DataLinkRx(p, b).len > 0 /\ mode # "STX" => ~DataLinkRx(p, b).rxFlag
<1> DEFINE Kept(q) == /\ PortOK(q) /\ q.tx = p.tx
                      /\ q.state = "WAIT_ACK" => p.state = "WAIT_ACK"
           Empty(q) == Kept(q) /\ q.len = 0
           r == DataLinkRx(p, b)
<1>0. p \in Ports /\ 0 \in Bytes /\ Xor(p.lrc, b) \in Bytes
  BY XorType DEF PortOK, Bytes
<1>8. ToSet(LenStates) \subseteq {"LEN_L", "LEN_L2", "LEN_H", "LEN_H2"}
  BY SettingsFacts DEF ToSet
<1>1. CASE p.state = "WAIT_ACK"
  <2>1. r = p
    BY <1>1 DEF DataLinkRx
  <2> QED BY <2>1
<1>2. CASE p.state # "WAIT_ACK" /\ TooLong(p)
  <2>1. r = Discard(p)
    BY <1>2 DEF DataLinkRx
  <2>2. Empty(r)
    BY <1>0, <2>1 DEF Discard, PortOK, Ports, States
  <2> QED BY <2>2
<1>3. CASE p.state = "IDLE" /\ ~TooLong(p)
  <2>1. r = RxIdle(p, b)
    BY <1>3, <1>8 DEF DataLinkRx
  <2> DEFINE s == IF mode = "STX" THEN "DATA" ELSE "LEN_L"
             q == [p EXCEPT !.len = 0, !.cnt = 0, !.lrc = 0, !.buf = <<>>, !.state = s]
  <2>2. r = p \/ r = q
    BY <2>1 DEF RxIdle
  <2>3. <<>> \in Seq(Bytes) /\ Len(<<>>) = 0 /\ BufferSize \in Nat /\ s \in {"DATA", "LEN_L"}
    BY SettingsFacts
  <2> HIDE DEF s
  <2>4. q \in Ports /\ q.buf = <<>> /\ q.len = 0 /\ q.tx = p.tx /\ q.state # "WAIT_ACK"
    BY <1>0, <2>3 DEF PortOK, Ports, States
  <2> HIDE DEF q, r
  <2>5. Empty(r)
    BY <2>2, <2>3, <2>4 DEF PortOK
  <2> QED BY <2>5 DEF r
<1>4. CASE p.state \in ToSet(LenStates) /\ ~TooLong(p) /\ p.state \notin {"IDLE", "WAIT_ACK"}
  <2>1. r = RxLen(p, b)
    BY <1>4, <1>8 DEF DataLinkRx
  <2> DEFINE k == CHOOSE j \in 1..Len(LenStates) : LenStates[j] = p.state
             n == p.cnt + b * 256^(k-1)
             next == IF k < Len(LenStates) THEN LenStates[k+1]
                     ELSE IF n # 0 THEN "DATA" ELSE "IDLE"
  <2>2. k \in 1..Len(LenStates)
    <3>1. \E j \in 1..Len(LenStates) : LenStates[j] = p.state
      BY <1>4 DEF ToSet
    <3> QED BY <3>1
  <2> HIDE DEF k
  <2>3. k \in 1..4
    <3>1. PICK m \in 0..4 : m = Len(LenStates)
      BY SettingsFacts
    <3>2. k \in 1..m
      BY <2>2, <3>1
    <3> QED BY <3>2
  <2>4. n \in Nat
    <3>1. 256^(k-1) \in Nat
      <4>1. CASE k = 1
        BY <4>1, Powers
      <4>2. CASE k = 2
        BY <4>2, Powers
      <4>3. CASE k = 3
        BY <4>3, Powers
      <4>4. CASE k = 4
        BY <4>4, Powers
      <4> QED BY <2>3, <4>1, <4>2, <4>3, <4>4
    <3>2. p.cnt \in Nat /\ b \in Nat
      BY <1>0 DEF Ports, Bytes
    <3>3. \A x, y \in Nat : x * y \in Nat
      OBVIOUS
    <3> QED BY <3>1, <3>2, <3>3
  <2>5. next \in {"LEN_L", "LEN_L2", "LEN_H", "LEN_H2", "DATA", "IDLE"}
    <3>1. k < Len(LenStates) => k + 1 \in 1..Len(LenStates)
      BY <2>2, SettingsFacts
    <3>2. k < Len(LenStates) => LenStates[k+1] \in {"LEN_L", "LEN_L2", "LEN_H", "LEN_H2"}
      BY <3>1, SettingsFacts
    <3> QED BY <3>2
  <2>6. r = [p EXCEPT !.cnt = n, !.lrc = Xor(p.lrc, b), !.state = next]
    BY <1>0, <2>1 DEF RxLen, k, Ports
  <2> HIDE DEF n, next, r
  <2>7. Empty(r)
    BY <1>0, <2>4, <2>5, <2>6 DEF PortOK, Ports, States
  <2> QED BY <2>7 DEF r
<1>5. CASE p.state = "DATA" /\ ~TooLong(p) /\ p.state \notin ToSet(LenStates)
  <2>1. r = RxData(p, b)
    BY <1>5, <1>8 DEF DataLinkRx
  <2>2. CASE mode = "STX" /\ b = ETX
    <3>1. r = [p EXCEPT !.lrc = Xor(p.lrc, b), !.state = "LRC"]
      BY <1>0, <2>1, <2>2 DEF RxData, Ports
    <3> HIDE DEF r
    <3>2. Empty(r)
      BY <1>0, <3>1 DEF PortOK, Ports, States
    <3> QED BY <3>2 DEF r
  <2>3. CASE ~(mode = "STX" /\ b = ETX)
    <3> DEFINE next == IF mode # "STX" /\ Len(p.buf) + 1 = p.cnt THEN "LRC" ELSE "DATA"
    <3>1. r = [p EXCEPT !.lrc = Xor(p.lrc, b), !.buf = Append(p.buf, b), !.state = next]
      BY <1>0, <2>1, <2>3 DEF RxData, Ports
    <3>2. next \in {"LRC", "DATA"}
      OBVIOUS
    <3> HIDE DEF r, next
    <3>3. /\ Append(p.buf, b) \in Seq(Bytes)
          /\ Len(Append(p.buf, b)) <= BufferSize + 1
      <4>1. p.buf \in Seq(Bytes) /\ Len(p.buf) <= BufferSize /\ BufferSize \in Nat
        BY <1>0, <1>5, SettingsFacts DEF TooLong, Ports
      <4> QED BY <4>1
    <3>4. Empty(r)
      BY <1>0, <3>1, <3>2, <3>3 DEF PortOK, Ports, States
    <3> QED BY <3>4 DEF r
  <2> QED BY <2>2, <2>3
<1>6. CASE p.state = "LRC" /\ ~TooLong(p) /\ p.state \notin ToSet(LenStates)
  <2>1. r = RxLrc(p, b) /\ AtLrc(p)
    BY <1>6 DEF DataLinkRx, AtLrc
  <2> DEFINE q == [p EXCEPT !.len = Len(p.buf)]
  <2>2. r = q \/ r = RxEnd(q) \/ r = RxEnd(p)
    BY <2>1 DEF RxLrc
  <2>3. r = q => mode = "STX" \/ r.len = 0 \/ q = RxEnd(q)
    <3>1. mode # "STX" => r = RxEnd(q) \/ r = RxEnd(p)
      BY <2>1 DEF RxLrc
    <3>2. RxEnd(p).len = 0
      BY <1>0 DEF RxEnd, Ports
    <3> QED BY <3>1, <3>2, Zenon
  <2>4. q \in Ports /\ q.buf = p.buf /\ q.tx = p.tx /\ q.state = "LRC" /\ q.len = Len(p.buf)
    BY <1>0, <1>6 DEF PortOK, Ports
  <2> HIDE DEF q, r
  <2>5. ASSUME NEW x \in Ports
        PROVE  /\ RxEnd(x) \in Ports /\ RxEnd(x).buf = x.buf /\ RxEnd(x).tx = x.tx
               /\ RxEnd(x).len = x.len /\ ~RxEnd(x).rxFlag /\ RxEnd(x).state = "IDLE"
    BY DEF RxEnd, Ports, States
  <2>6. Kept(r)
    BY <1>0, <2>2, <2>4, <2>5 DEF PortOK
  <2>7. r.len > 0 /\ mode # "STX" => ~r.rxFlag
    BY <1>0, <2>2, <2>3, <2>4, <2>5
  <2>8. AtLrc(p)
    BY <2>1
  <2> QED BY <2>6, <2>7, <2>8 DEF r
<1>7. CASE /\ p.state \notin {"WAIT_ACK", "IDLE", "DATA", "LRC"} \cup ToSet(LenStates)
           /\ ~TooLong(p)
  <2>1. r = p
    BY <1>7 DEF DataLinkRx
  <2> QED BY <2>1
<1> QED BY <1>1, <1>2, <1>3, <1>4, <1>5, <1>6, <1>7, <1>8

----------------------------------------------------------------------------
\* The sender keeps the tables of the receiver, and writes the package in the
\* transmit buffer or nothing: nothing only if the write is refused.

Keeps(q, p) == /\ PortOK(q) /\ q.tx = p.tx /\ q.buf = p.buf /\ q.len = p.len
               /\ q.rxFlag = p.rxFlag

Writes(r, p) == /\ r.bytes \in {p.tx, <<>>} /\ r.bytes \in Seq(Bytes)
                /\ r.port.state = "WAIT_ACK" => p.state = "WAIT_ACK"

LEMMA SendPackageOK ==
  ASSUME NEW p, PortOK(p), NEW r \in SendPackage(p)
  PROVE  /\ Keeps(r.port, p) /\ Writes(r, p) /\ r.port.resend = p.resend
         /\ r.bytes = <<>> /\ p.tx # <<>> => CanWriteFail
<1>1. \/ r = Sent([p EXCEPT !.nak = FALSE, !.txFlag = TRUE], p.tx)
      \/ r = Sent([p EXCEPT !.nak = FALSE], <<>>) /\ CanWriteFail
  BY DEF SendPackage
<1>2. p \in Ports /\ p.tx \in Seq(Bytes) /\ <<>> \in Seq(Bytes)
  BY DEF PortOK, Ports
<1>3. \/ r.port = [p EXCEPT !.nak = FALSE, !.txFlag = TRUE] /\ r.bytes = p.tx
      \/ r.port = [p EXCEPT !.nak = FALSE] /\ r.bytes = <<>> /\ CanWriteFail
  <2>1. CASE r = Sent([p EXCEPT !.nak = FALSE, !.txFlag = TRUE], p.tx)
    BY <2>1 DEF Sent
  <2>2. CASE r = Sent([p EXCEPT !.nak = FALSE], <<>>) /\ CanWriteFail
    BY <2>2 DEF Sent
  <2> QED BY <1>1, <2>1, <2>2
<1>4. /\ r.port \in Ports /\ r.port.tx = p.tx /\ r.port.buf = p.buf
      /\ r.port.len = p.len /\ r.port.rxFlag = p.rxFlag
      /\ r.port.state = p.state /\ r.port.resend = p.resend
  BY <1>2, <1>3 DEF Ports
<1>5. r.bytes \in {p.tx, <<>>} /\ (r.bytes = <<>> /\ p.tx # <<>> => CanWriteFail)
  BY <1>3
<1> QED BY <1>2, <1>4, <1>5 DEF Keeps, Writes, PortOK

LEMMA ResendPackageOK ==
  ASSUME NEW p, PortOK(p), NEW flag \in BOOLEAN, NEW r \in ResendPackage(p, flag)
  PROVE  /\ Keeps(r.port, p) /\ Writes(r, p) /\ r.port.resend = (p.resend - 1) % Counts
         /\ r.bytes = <<>> /\ p.tx # <<>> => CanWriteFail
<1> DEFINE n == (p.resend - 1) % Counts
           c == [p EXCEPT !.resend = n]
<1>1. p \in Ports /\ p.resend \in Int
  BY AuxAssumption DEF PortOK, Ports
<1>2. PICK s \in SendPackage(c) : r = Sent([s.port EXCEPT !.nak = flag], s.bytes)
  BY <1>1 DEF ResendPackage, Ports
<1>3. n \in 0..(Counts-1)
  BY <1>1, AuxAssumption
<1> HIDE DEF n
<1>4. /\ c \in Ports /\ c.tx = p.tx /\ c.buf = p.buf /\ c.len = p.len /\ c.rxFlag = p.rxFlag
      /\ c.state = p.state /\ c.resend = n
  BY <1>1, <1>3 DEF Ports
<1> HIDE DEF c
<1>5. PortOK(c)
  BY <1>4 DEF PortOK
<1>6. /\ Keeps(s.port, c) /\ Writes(s, c) /\ s.port.resend = c.resend
      /\ s.bytes = <<>> /\ c.tx # <<>> => CanWriteFail
  BY <1>5, SendPackageOK
<1>7. r.bytes = s.bytes /\ r.port = [s.port EXCEPT !.nak = flag] /\ s.port \in Ports
  BY <1>2, <1>6 DEF Sent, Keeps, PortOK
<1>8. /\ r.port \in Ports /\ r.port.tx = s.port.tx /\ r.port.buf = s.port.buf
      /\ r.port.len = s.port.len /\ r.port.rxFlag = s.port.rxFlag
      /\ r.port.state = s.port.state /\ r.port.resend = s.port.resend
  BY <1>7 DEF Ports
<1>9. Keeps(r.port, p) /\ Writes(r, p)
  BY <1>1, <1>4, <1>6, <1>7, <1>8 DEF Keeps, Writes, PortOK
<1> QED BY <1>4, <1>6, <1>7, <1>8, <1>9 DEF n

\* A port of which the retransmissions are used up.
LEMMA ExhaustedOK ==
  ASSUME NEW p, PortOK(p)
  PROVE  /\ Keeps(Exhausted(p), p) /\ Exhausted(p).state = "IDLE"
         /\ Exhausted(p).resend = p.resend /\ Exhausted(p).status = p.status
<1>1. p \in Ports
  BY DEF PortOK
<1>2. /\ Exhausted(p) \in Ports /\ Exhausted(p).tx = p.tx /\ Exhausted(p).buf = p.buf
      /\ Exhausted(p).len = p.len /\ Exhausted(p).rxFlag = p.rxFlag
      /\ Exhausted(p).state = "IDLE" /\ Exhausted(p).resend = p.resend
      /\ Exhausted(p).status = p.status
  BY <1>1 DEF Exhausted, Ports, States
<1> QED BY <1>2 DEF Keeps, PortOK

\* An answer leaves no message complete where there was none.
LEMMA TakeAnswerOK ==
  ASSUME NEW p, PortOK(p), p.len = 0, NEW b, settings \in Settings
  PROVE  /\ PortOK(TakeAnswer(p, b)) /\ TakeAnswer(p, b).tx = p.tx /\ TakeAnswer(p, b).len = 0
         /\ TakeAnswer(p, b).state = "WAIT_ACK" => p.state = "WAIT_ACK"
         /\ TakeAnswer(p, b).resend = p.resend
<1> DEFINE r == TakeAnswer(p, b)
<1>0. p \in Ports
  BY DEF PortOK
<1>1. CASE b = ACK
  <2>1. r = Free(p)
    BY <1>1 DEF TakeAnswer, ACK, NAK, SOH
  <2> HIDE DEF r
  <2>2. /\ r \in Ports /\ r.tx = p.tx /\ r.buf = p.buf
        /\ r.len = p.len /\ r.state = "IDLE" /\ r.resend = p.resend
    BY <1>0, <2>1 DEF Free, Ports, States
  <2>3. PortOK(r)
    BY <2>2 DEF PortOK
  <2> QED BY <2>2, <2>3 DEF r
<1>2. CASE b # ACK /\ b # SOH /\ (b # NAK \/ p.nak)
  <2>1. r = [p EXCEPT !.txFlag = TRUE]
    BY <1>2 DEF TakeAnswer, TakeNak
  <2> HIDE DEF r
  <2>2. /\ r \in Ports /\ r.tx = p.tx /\ r.buf = p.buf
        /\ r.len = p.len /\ r.state = p.state /\ r.resend = p.resend
    BY <1>0, <2>1 DEF Ports
  <2>3. PortOK(r)
    BY <2>2 DEF PortOK
  <2> QED BY <2>2, <2>3 DEF r
<1>3. CASE b = NAK /\ ~p.nak
  <2> DEFINE c == [p EXCEPT !.nak = TRUE]
  <2>1. r = IF CanResend(p) THEN c ELSE [Exhausted(c) EXCEPT !.status = "ERROR"]
    BY <1>3 DEF TakeAnswer, TakeNak, ACK, NAK, SOH
  <2>2. /\ c \in Ports /\ c.tx = p.tx /\ c.buf = p.buf /\ c.len = p.len
        /\ c.state = p.state /\ c.resend = p.resend
    BY <1>0 DEF Ports
  <2> HIDE DEF c, r
  <2>3. PortOK(c)
    BY <2>2 DEF PortOK
  <2>4. CASE CanResend(p)
    BY <2>1, <2>2, <2>3, <2>4 DEF r
  <2>5. CASE ~CanResend(p)
    <3>1. /\ Exhausted(c) \in Ports /\ Exhausted(c).tx = c.tx /\ Exhausted(c).buf = c.buf
          /\ Exhausted(c).len = c.len /\ Exhausted(c).state = "IDLE" /\ Exhausted(c).resend = c.resend
      BY <2>3, ExhaustedOK DEF Keeps, PortOK
    <3>2. /\ r \in Ports /\ r.tx = c.tx /\ r.buf = c.buf /\ r.len = c.len /\ r.state = "IDLE"
          /\ r.resend = c.resend
      BY <2>1, <2>5, <3>1 DEF Ports
    <3>3. PortOK(r)
      BY <2>3, <3>2 DEF PortOK
    <3> QED BY <2>2, <3>2, <3>3 DEF r
  <2> QED BY <2>4, <2>5
<1>4. CASE b = SOH
  <2> DEFINE c == [Free(p) EXCEPT !.rxFlag = FALSE]
             q == Restart(c)
  <2>1. r = IF q.first = SOH THEN [q EXCEPT !.state = "LEN_L"] ELSE q
    BY <1>4 DEF TakeAnswer, TakeSoh, ACK, NAK, SOH
  <2> HIDE DEF r
  <2>2. /\ c \in Ports /\ c.tx = p.tx /\ c.buf = p.buf /\ c.len = p.len
        /\ c.state = "IDLE" /\ c.resend = p.resend /\ ~c.rxFlag
    BY <1>0 DEF Free, Ports, States
  <2> HIDE DEF c
  <2>3. PortOK(c)
    BY <2>2 DEF PortOK
  <2>4. PortOK(q) /\ q.tx = p.tx /\ q.len = 0 /\ q.state = "IDLE" /\ q.resend = p.resend
    <3>1. q.resend = c.resend
      BY <2>2 DEF Restart, Ports
    <3> QED BY <2>2, <2>3, <3>1, RestartOK
  <2> HIDE DEF q
  <2>5. /\ r \in Ports /\ r.buf = q.buf /\ r.tx = q.tx /\ r.len = q.len
        /\ r.state # "WAIT_ACK" /\ r.resend = q.resend
    BY <2>1, <2>4, SMTT(30) DEF PortOK, Ports, States
  <2>6. PortOK(r)
    BY <2>4, <2>5 DEF PortOK
  <2> QED BY <2>4, <2>5, <2>6 DEF r
<1> QED BY <1>1, <1>2, <1>3, <1>4

----------------------------------------------------------------------------
\* The inductive invariant: the types, and for each end that a complete message
\* waits for its application, that what is to be sent again is in the transmit
\* buffer, and that the timer thread will not discard a complete message.

AuxTyped ==
  /\ settings \in Settings
  /\ port \in [Ends -> Ports]
  /\ line \in [Ends -> Seq(Bytes)]
  /\ due \in [Ends -> {"none", "resend", "clear", "set", "tob"}]
  /\ app \in [Ends -> {"talk", "wait", "again", "listen", "ready"}]
  /\ outcome \in [Ends -> {"none", "pending", "ok", "failed"}]
  /\ got \in [Ends -> Seq(Seq(Bytes))]
  /\ rcvd \in [Ends -> Seq(Seq(Bytes))]
  /\ faults \in 0..Faults[timing] /\ refusals \in 0..Refusals
  /\ hit \in [Ends -> BOOLEAN]

EndOK(e) ==
  /\ PortOK(port[e])
  /\ port[e].len > 0 => app[e] = "ready"
  /\ \/ app[e] \in {"wait", "again"} \/ due[e] \in {"resend", "clear", "set"}
     \/ port[e].state = "WAIT_ACK"
     => port[e].tx # <<>>

Waiting(e) == IF port[e].len > 0 THEN <<port[e].buf>> ELSE <<>>

KeptEnd(e) ==
  timing = "timely" /\ mode # "STX" =>
    /\ port[e].len > 0 => ~port[e].rxFlag /\ due[e] # "tob"
    /\ rcvd[e] = got[e] \o Waiting(e)

AuxInv == AuxTyped /\ \A e \in Ends : EndOK(e) /\ KeptEnd(e)

\* Two ends that differ are each other's peer.
LEMMA EndsFacts ==
  \A e \in Ends : /\ Other(e) \in Ends /\ Other(e) # e
                  /\ \A x \in Ends : x # e => x = Other(e)
BY DEF Ends, Other

LEMMA AppendFacts ==
  ASSUME NEW T, NEW s \in Seq(T), NEW x \in T
  PROVE  /\ Append(s, x) = s \o <<x>> /\ s \o <<>> = s
         /\ Append(s, x) \o <<>> = s \o <<x>>
<1>1. Append(s, x) = s \o <<x>> /\ s \o <<>> = s /\ Append(s, x) \in Seq(T)
  OBVIOUS
<1>2. \A t \in Seq(T) : t \o <<>> = t
  OBVIOUS
<1> QED BY <1>1, <1>2

\* What a step at one end has to show.
LEMMA OneEnd ==
  ASSUME AuxInv, AuxTyped', UNCHANGED settings, NEW e \in Ends,
         \A x \in Ends : x # e => /\ port'[x] = port[x] /\ due'[x] = due[x]
                                  /\ app'[x] = app[x] /\ got'[x] = got[x]
                                  /\ rcvd'[x] = rcvd[x],
         EndOK(e)', KeptEnd(e)'
  PROVE  AuxInv'
<1>1. mode' = mode /\ timing' = timing
  BY DEF settings
<1>2. ASSUME NEW x \in Ends, x # e PROVE EndOK(x)' /\ KeptEnd(x)'
  <2>1. EndOK(x) /\ KeptEnd(x)
    BY DEF AuxInv
  <2>2. Waiting(x)' = Waiting(x)
    BY <1>2 DEF Waiting
  <2> QED BY <1>1, <1>2, <2>1, <2>2 DEF EndOK, KeptEnd
<1> QED BY <1>2 DEF AuxInv

LEMMA InitAux == Init => AuxInv
<1> SUFFICES ASSUME Init PROVE AuxInv
  OBVIOUS
<1>1. settings \in Settings
  <2>1. PICK s \in Settings : mode = s[1] /\ ackMode = s[2] /\ timing = s[3]
    BY DEF Init
  <2>2. s \in {"DLL", "SOH", "SOH4", "STX"} \X BOOLEAN \X {"timely", "late"}
    BY AuxAssumption
  <2>3. s = <<s[1], s[2], s[3]>>
    BY <2>2
  <2> QED BY <2>1, <2>3 DEF settings
<1>2. FreshPort \in Ports
  <2>1. MaxResend \in 0..(Counts-1)
    BY AuxAssumption
  <2> QED BY SettingsFacts, <1>1, <2>1 DEF FreshPort, Ports, States, Bytes
<1>3. PortOK(FreshPort) /\ FreshPort.len = 0 /\ FreshPort.state = "IDLE"
  BY <1>2, SettingsFacts, <1>1 DEF FreshPort, PortOK
<1>4. AuxTyped
  BY <1>1, <1>2, SettingsFacts DEF Init, AuxTyped
<1>5. ASSUME NEW e \in Ends PROVE EndOK(e) /\ KeptEnd(e)
  <2>1. /\ port[e] = FreshPort /\ due[e] = "none" /\ app[e] \in {"talk", "listen"}
        /\ got[e] = <<>> /\ rcvd[e] = <<>>
    BY DEF Init
  <2>2. Waiting(e) = <<>> /\ <<>> \o <<>> = <<>>
    BY <1>3, <2>1 DEF Waiting
  <2> QED BY <1>3, <2>1, <2>2 DEF EndOK, KeptEnd
<1> QED BY <1>4, <1>5 DEF AuxInv
\* One more refusal is within the bound if the write could be refused.
LEMMA RefusalsOK ==
  ASSUME AuxTyped, NEW refused \in BOOLEAN, refused => CanWriteFail,
         refusals' = refusals + (IF refused THEN 1 ELSE 0)
  PROVE  refusals' \in 0..Refusals
BY SettingsFacts DEF AuxTyped, CanWriteFail

\* Bytes are added to what is on the line to one end.
LEMMA LineOK ==
  ASSUME AuxTyped, NEW e \in Ends, NEW bytes \in Seq(Bytes),
         line' = [line EXCEPT ![e] = @ \o bytes]
  PROVE  line' \in [Ends -> Seq(Bytes)]
<1>1. line[e] \o bytes \in Seq(Bytes)
  BY DEF AuxTyped
<1> QED BY <1>1 DEF AuxTyped

LEMMA AcksType == \A b \in Bytes : Repeat(b, Acks) \in Seq(Bytes)
BY AuxAssumption DEF Repeat

\* No message is complete that the application has not been told of.
LEMMA NotReady ==
  ASSUME NEW e \in Ends, EndOK(e), app[e] # "ready"
  PROVE  port[e] \in Ports /\ port[e].len = 0
<1>1. port[e] \in Ports /\ port[e].len \in Nat /\ ~(port[e].len > 0)
  BY DEF EndOK, PortOK, Ports
<1> QED BY <1>1

----------------------------------------------------------------------------
\* The steps of the application.

LEMMA TxStringInv ==
  ASSUME AuxInv, NEW e \in Ends, NEW m \in Messages, TxString(e, m)
  PROVE  AuxInv'
<1> DEFINE p == [port[e] EXCEPT !.status = "BUSY", !.tx = Package(m),
                                !.resend = MaxResend, !.state = "WAIT_ACK"]
<1>0. AuxTyped /\ EndOK(e) /\ KeptEnd(e) /\ port[e] \in Ports /\ port[e].len = 0
  <2>1. AuxTyped /\ EndOK(e) /\ KeptEnd(e) /\ app[e] = "talk"
    BY DEF AuxInv, TxString
  <2> QED BY <2>1, NotReady
<1>1. Package(m) \in Seq(Bytes) /\ Package(m) # <<>>
  BY <1>0, PackageType DEF AuxTyped
<1>2. /\ p \in Ports /\ p.tx = Package(m) /\ p.buf = port[e].buf /\ p.len = port[e].len
      /\ p.rxFlag = port[e].rxFlag
  <2>1. MaxResend \in 0..(Counts-1)
    BY AuxAssumption
  <2> HIDE DEF p
  <2> QED BY <1>0, <1>1, <2>1 DEF p, Ports, States
<1>3. PICK r \in SendPackage(p) :
        /\ port' = [port EXCEPT ![e] = r.port]
        /\ line' = [line EXCEPT ![Other(e)] = @ \o r.bytes]
        /\ app' = [app EXCEPT ![e] = IF r.bytes = <<>> THEN "talk" ELSE "wait"]
        /\ outcome' = [outcome EXCEPT ![e] = IF r.bytes = <<>> THEN "failed" ELSE "pending"]
        /\ CountRefusal(r)
  BY DEF TxString
<1> HIDE DEF p
<1>4. PortOK(p)
  BY <1>0, <1>2 DEF EndOK, PortOK
<1>5. /\ Keeps(r.port, p) /\ Writes(r, p)
      /\ r.bytes = <<>> /\ p.tx # <<>> => CanWriteFail
  BY <1>4, SendPackageOK
<1>6. UNCHANGED settings /\ UNCHANGED <<due, rcvd, got, faults, hit>>
  BY DEF TxString
<1>7. AuxTyped'
  <2>1. refusals' \in 0..Refusals
    <3> DEFINE refused == r.bytes = <<>>
    <3>1. refused \in BOOLEAN /\ (refused => CanWriteFail)
      BY <1>1, <1>2, <1>5
    <3>2. refusals' = refusals + (IF refused THEN 1 ELSE 0)
      BY <1>3 DEF CountRefusal
    <3> HIDE DEF refused
    <3> QED BY <1>0, <3>1, <3>2, RefusalsOK
  <2>2. line' \in [Ends -> Seq(Bytes)]
    BY <1>0, <1>3, <1>5, EndsFacts, LineOK DEF Writes
  <2>3. port' \in [Ends -> Ports]
    BY <1>0, <1>3, <1>5 DEF AuxTyped, Keeps, PortOK
  <2>4. /\ app' \in [Ends -> {"talk", "wait", "again", "listen", "ready"}]
        /\ outcome' \in [Ends -> {"none", "pending", "ok", "failed"}]
    BY <1>0, <1>3 DEF AuxTyped
  <2>5. settings' \in Settings /\ faults' \in 0..Faults'[timing']
    BY <1>0, <1>6 DEF AuxTyped, settings
  <2> QED BY <1>0, <1>6, <2>1, <2>2, <2>3, <2>4, <2>5 DEF AuxTyped
<1>8. port'[e] = r.port
  BY <1>0, <1>3 DEF AuxTyped
<1>9. EndOK(e)'
  BY <1>0, <1>1, <1>2, <1>5, <1>8 DEF EndOK, Keeps
<1>10. KeptEnd(e)'
  BY <1>0, <1>2, <1>5, <1>6, <1>8 DEF KeptEnd, Waiting, Keeps, settings
<1>11. \A x \in Ends : x # e => /\ port'[x] = port[x] /\ due'[x] = due[x]
                                /\ app'[x] = app[x] /\ got'[x] = got[x]
                                /\ rcvd'[x] = rcvd[x]
  BY <1>0, <1>3, <1>6 DEF AuxTyped
<1> QED BY <1>6, <1>7, <1>9, <1>10, <1>11, OneEnd

\* What the status of a port leaves of it.
LEMMA ToldOK ==
  ASSUME AuxTyped, NEW e \in Ends, NEW p, PortOK(p), p.len = 0, Told(e, p)
  PROVE  /\ port' \in [Ends -> Ports] /\ app' \in [Ends -> {"talk", "wait", "again", "listen", "ready"}]
         /\ outcome' \in [Ends -> {"none", "pending", "ok", "failed"}]
         /\ PortOK(port'[e]) /\ port'[e].tx = p.tx /\ port'[e].len = 0 /\ port'[e].buf = p.buf
         /\ port'[e].state = p.state /\ port'[e].resend = p.resend
         /\ app'[e] # "again" /\ app'[e] # "ready"
         /\ \A x \in Ends : x # e => port'[x] = port[x] /\ app'[x] = app[x]
<1> DEFINE q == IF p.status = "ERROR" THEN [p EXCEPT !.status = "FREE"] ELSE p
<1>1. port' = [port EXCEPT ![e] = q]
  BY DEF Told
<1>2. p \in Ports
  BY DEF PortOK
<1>3. /\ q \in Ports /\ q.tx = p.tx /\ q.len = 0 /\ q.buf = p.buf /\ q.state = p.state
      /\ q.resend = p.resend
  BY <1>2 DEF Ports
<1> HIDE DEF q
<1>4. PortOK(q)
  BY <1>3 DEF PortOK
<1>5. port' \in [Ends -> Ports] /\ port'[e] = q /\ \A x \in Ends : x # e => port'[x] = port[x]
  BY <1>1, <1>3 DEF AuxTyped
<1>6. \E v \in {"talk", "wait", "listen"} : app' = [app EXCEPT ![e] = v]
  BY DEF Told, AfterTalk
<1>7. /\ app' \in [Ends -> {"talk", "wait", "again", "listen", "ready"}]
      /\ app'[e] # "again" /\ app'[e] # "ready" /\ \A x \in Ends : x # e => app'[x] = app[x]
  BY <1>6 DEF AuxTyped
<1>8. outcome' \in [Ends -> {"none", "pending", "ok", "failed"}]
  BY DEF Told, AuxTyped
<1> QED BY <1>3, <1>4, <1>5, <1>7, <1>8

LEMMA TxReadyInv ==
  ASSUME AuxInv, NEW e \in Ends, TxReady(e)
  PROVE  AuxInv'
<1> DEFINE p == port[e]
           q == IF line[e] = <<>> THEN p ELSE TakeAnswer(p, line[e][1])
<1>0. /\ AuxTyped /\ EndOK(e) /\ KeptEnd(e) /\ app[e] = "wait"
      /\ p \in Ports /\ p.len = 0 /\ p.tx # <<>>
  <2>1. AuxTyped /\ EndOK(e) /\ KeptEnd(e) /\ app[e] = "wait"
    BY DEF AuxInv, TxReady
  <2> QED BY <2>1, NotReady DEF EndOK
<1>1. \/ /\ port' = [port EXCEPT ![e] = q] /\ app' = [app EXCEPT ![e] = "again"]
         /\ UNCHANGED outcome
      \/ Told(e, q)
  BY DEF TxReady
<1>2. /\ line' = [line EXCEPT ![e] = SubSeq(@, Taken(e) + 1, Len(@))]
      /\ UNCHANGED settings /\ UNCHANGED <<due, posted, rcvd, got, faults, refusals>>
      /\ hit' = [hit EXCEPT ![e] = @ /\ line'[e] # <<>>]
  BY DEF TxReady
<1>3. /\ PortOK(q) /\ q.tx = p.tx /\ q.len = 0 /\ q \in Ports
      /\ q.state = "WAIT_ACK" => p.state = "WAIT_ACK"
  <2>1. PortOK(p) /\ settings \in Settings
    BY <1>0 DEF EndOK, AuxTyped
  <2> QED BY <1>0, <2>1, TakeAnswerOK DEF PortOK
<1> HIDE DEF q
<1>4. /\ port' \in [Ends -> Ports] /\ app' \in [Ends -> {"talk", "wait", "again", "listen", "ready"}]
      /\ outcome' \in [Ends -> {"none", "pending", "ok", "failed"}]
      /\ PortOK(port'[e]) /\ port'[e].tx = p.tx /\ port'[e].len = 0
      /\ \A x \in Ends : x # e => port'[x] = port[x] /\ app'[x] = app[x]
  <2>1. CASE /\ port' = [port EXCEPT ![e] = q] /\ app' = [app EXCEPT ![e] = "again"]
             /\ UNCHANGED outcome
    BY <1>0, <1>3, <2>1 DEF AuxTyped
  <2>2. CASE Told(e, q)
    BY <1>0, <1>3, <2>2, ToldOK
  <2> QED BY <1>1, <2>1, <2>2
<1> HIDE DEF p
<1>5. AuxTyped'
  <2>1. line' \in [Ends -> Seq(Bytes)]
    <3>1. Taken(e) \in Nat /\ line[e] \in Seq(Bytes)
      BY <1>0 DEF Taken, AuxTyped
    <3>2. SubSeq(line[e], Taken(e) + 1, Len(line[e])) \in Seq(Bytes)
      BY <3>1
    <3> QED BY <1>0, <1>2, <3>2 DEF AuxTyped
  <2>2. settings' \in Settings /\ faults' \in 0..Faults'[timing']
    BY <1>0, <1>2 DEF AuxTyped, settings
  <2>3. hit' \in [Ends -> BOOLEAN]
    BY <1>0, <1>2 DEF AuxTyped
  <2> QED BY <1>0, <1>2, <1>4, <2>1, <2>2, <2>3 DEF AuxTyped
<1>6. EndOK(e)'
  BY <1>0, <1>4 DEF EndOK
<1>7. KeptEnd(e)'
  <2>1. port'[e].len = 0 /\ port[e].len = 0 /\ ~(0 > 0)
    BY <1>0, <1>4 DEF p
  <2>2. Waiting(e)' = Waiting(e)
    BY <2>1 DEF Waiting
  <2> QED BY <1>0, <1>2, <2>1, <2>2 DEF KeptEnd, settings
<1> QED BY <1>2, <1>4, <1>5, <1>6, <1>7, OneEnd

LEMMA TxAgainInv ==
  ASSUME AuxInv, NEW e \in Ends, TxAgain(e)
  PROVE  AuxInv'
<1> DEFINE p == port[e]
<1>0. /\ AuxTyped /\ EndOK(e) /\ KeptEnd(e) /\ app[e] = "again"
      /\ PortOK(p) /\ p.len = 0 /\ p.tx # <<>>
  <2>1. AuxTyped /\ EndOK(e) /\ KeptEnd(e) /\ app[e] = "again"
    BY DEF AuxInv, TxAgain
  <2> QED BY <2>1, NotReady DEF EndOK
<1>1. PICK r \in ResendPackage(p, TRUE) :
        /\ Told(e, IF r.bytes = <<>> THEN [r.port EXCEPT !.status = "ERROR"] ELSE r.port)
        /\ line' = [line EXCEPT ![Other(e)] = @ \o r.bytes]
        /\ CountRefusal(r)
  BY DEF TxAgain
<1>2. UNCHANGED settings /\ UNCHANGED <<due, posted, rcvd, got, faults, hit>>
  BY DEF TxAgain
<1> HIDE DEF p
<1>3. /\ Keeps(r.port, p) /\ Writes(r, p)
      /\ r.bytes = <<>> => CanWriteFail
  BY <1>0, <1>1, ResendPackageOK
<1> DEFINE q == IF r.bytes = <<>> THEN [r.port EXCEPT !.status = "ERROR"] ELSE r.port
<1>4. PortOK(q) /\ q.tx = p.tx /\ q.len = 0 /\ q.buf = p.buf
  <2>1. r.port \in Ports /\ r.port.tx = p.tx /\ r.port.len = 0 /\ r.port.buf = p.buf /\ PortOK(r.port)
    BY <1>0, <1>3 DEF Keeps, PortOK
  <2>2. q \in Ports /\ q.tx = p.tx /\ q.len = 0 /\ q.buf = p.buf
    BY <2>1 DEF Ports
  <2> HIDE DEF q
  <2> QED BY <1>0, <2>2 DEF PortOK
<1>5. Told(e, q)
  BY <1>1
<1> HIDE DEF q
<1>6. /\ port' \in [Ends -> Ports] /\ app' \in [Ends -> {"talk", "wait", "again", "listen", "ready"}]
      /\ outcome' \in [Ends -> {"none", "pending", "ok", "failed"}]
      /\ PortOK(port'[e]) /\ port'[e].tx = p.tx /\ port'[e].len = 0
      /\ \A x \in Ends : x # e => port'[x] = port[x] /\ app'[x] = app[x]
  BY <1>0, <1>4, <1>5, ToldOK
<1>7. AuxTyped'
  <2>1. refusals' \in 0..Refusals
    <3> DEFINE refused == r.bytes = <<>>
    <3>1. refused \in BOOLEAN /\ (refused => CanWriteFail)
      BY <1>3
    <3>2. refusals' = refusals + (IF refused THEN 1 ELSE 0)
      BY <1>1 DEF CountRefusal
    <3> HIDE DEF refused
    <3> QED BY <1>0, <3>1, <3>2, RefusalsOK
  <2>2. line' \in [Ends -> Seq(Bytes)]
    BY <1>0, <1>1, <1>3, EndsFacts, LineOK DEF Writes
  <2>3. settings' \in Settings /\ faults' \in 0..Faults'[timing']
    BY <1>0, <1>2 DEF AuxTyped, settings
  <2> QED BY <1>0, <1>2, <1>6, <2>1, <2>2, <2>3 DEF AuxTyped
<1>8. EndOK(e)'
  BY <1>0, <1>6 DEF EndOK
<1>9. KeptEnd(e)'
  <2>1. port'[e].len = 0 /\ port[e].len = 0 /\ ~(0 > 0)
    BY <1>0, <1>6 DEF p
  <2>2. Waiting(e)' = Waiting(e)
    BY <2>1 DEF Waiting
  <2> QED BY <1>0, <1>2, <2>1, <2>2 DEF KeptEnd, settings
<1> QED BY <1>2, <1>6, <1>7, <1>8, <1>9, OneEnd

LEMMA GiveUpInv ==
  ASSUME AuxInv, NEW e \in Ends, GiveUp(e)
  PROVE  AuxInv'
<1>0. AuxTyped /\ EndOK(e) /\ KeptEnd(e)
  BY DEF AuxInv
<1>1. /\ app' = [app EXCEPT ![e] = "talk"] /\ outcome' = [outcome EXCEPT ![e] = "failed"]
      /\ UNCHANGED settings
      /\ UNCHANGED <<port, line, due, posted, rcvd, got, faults, refusals, hit>>
  BY DEF GiveUp
<1>2. AuxTyped'
  BY <1>0, <1>1 DEF AuxTyped, settings
<1>3. port[e].len = 0 /\ app[e] = "wait"
  BY <1>0, NotReady DEF GiveUp
<1>4. EndOK(e)' /\ KeptEnd(e)'
  BY <1>0, <1>1, <1>3 DEF EndOK, KeptEnd, Waiting, settings
<1>5. \A x \in Ends : x # e => /\ port'[x] = port[x] /\ due'[x] = due[x]
                               /\ app'[x] = app[x] /\ got'[x] = got[x]
                               /\ rcvd'[x] = rcvd[x]
  BY <1>0, <1>1 DEF AuxTyped
<1> QED BY <1>1, <1>2, <1>4, <1>5, OneEnd

\* A byte that completes a package makes one more message received and waiting.
LEMMA RxReadyInv ==
  ASSUME AuxInv, NEW e \in Ends, RxReady(e)
  PROVE  AuxInv'
<1> DEFINE p == Restart(port[e])
           b == Head(line[e])
           q == [p EXCEPT !.first = IF p.buf = <<>> THEN b ELSE @]
           r == DataLinkRx(q, b)
<1>0. /\ AuxTyped /\ EndOK(e) /\ KeptEnd(e) /\ app[e] = "listen" /\ CanRun(e)
      /\ port[e] \in Ports /\ port[e].len = 0
  <2>1. AuxTyped /\ EndOK(e) /\ KeptEnd(e) /\ app[e] = "listen" /\ CanRun(e)
    BY DEF AuxInv, RxReady
  <2> QED BY <2>1, NotReady
<1>1. UNCHANGED settings /\ UNCHANGED <<due, posted, outcome, got, faults, refusals>>
  BY DEF RxReady
<1>2. /\ app' = [app EXCEPT ![e] = IF port'[e].len > 0 THEN "ready" ELSE "listen"]
      /\ hit' = [hit EXCEPT ![e] = @ /\ line'[e] # <<>>]
  BY DEF RxReady
<1>3. \/ line[e] = <<>> /\ port' = [port EXCEPT ![e] = p] /\ UNCHANGED <<line, rcvd>>
      \/ /\ line[e] # <<>> /\ port' = [port EXCEPT ![e] = r]
         /\ line' = [line EXCEPT ![e] = IF mode = "STX" /\ TooLong(q) THEN <<>> ELSE Tail(@),
                                 ![Other(e)] = @ \o Answer(q, b)]
         /\ rcvd' = [rcvd EXCEPT ![e] = IF AtLrc(q) /\ r.len > 0 THEN Append(@, r.buf) ELSE @]
  BY DEF RxReady
<1>4. /\ PortOK(p) /\ p.tx = port[e].tx /\ p.len = 0
      /\ p.state \in {port[e].state, "IDLE"}
  BY <1>0, RestartOK DEF EndOK, AuxTyped
<1> DEFINE new == port'[e]
<1>5. /\ PortOK(new) /\ new.tx = port[e].tx
      /\ new.state = "WAIT_ACK" => port[e].state = "WAIT_ACK"
      /\ port' = [port EXCEPT ![e] = new]
      /\ line' \in [Ends -> Seq(Bytes)]
      /\ rcvd' = [rcvd EXCEPT ![e] = IF new.len > 0 THEN Append(@, new.buf) ELSE @]
      /\ new.len > 0 /\ mode # "STX" => ~new.rxFlag
  <2>1. CASE line[e] = <<>> /\ port' = [port EXCEPT ![e] = p] /\ UNCHANGED <<line, rcvd>>
    <3> HIDE DEF p
    <3>1. new = p
      BY <1>0, <2>1 DEF AuxTyped
    <3>2. rcvd' = [rcvd EXCEPT ![e] = IF new.len > 0 THEN Append(@, new.buf) ELSE @]
      BY <1>0, <1>4, <2>1, <3>1 DEF AuxTyped
    <3>3. port' = [port EXCEPT ![e] = new]
      BY <2>1, <3>1
    <3>4. line' \in [Ends -> Seq(Bytes)]
      BY <1>0, <2>1 DEF AuxTyped
    <3>5. ~(new.len > 0)
      BY <1>4, <3>1
    <3> HIDE DEF new
    <3> QED BY <1>4, <3>1, <3>2, <3>3, <3>4, <3>5
  <2>2. CASE /\ line[e] # <<>> /\ port' = [port EXCEPT ![e] = r]
             /\ line' = [line EXCEPT ![e] = IF mode = "STX" /\ TooLong(q) THEN <<>> ELSE Tail(@),
                                     ![Other(e)] = @ \o Answer(q, b)]
             /\ rcvd' = [rcvd EXCEPT ![e] = IF AtLrc(q) /\ r.len > 0 THEN Append(@, r.buf) ELSE @]
    <3>1. b \in Bytes /\ Tail(line[e]) \in Seq(Bytes) /\ <<>> \in Seq(Bytes)
      BY <1>0, <2>2 DEF AuxTyped
    <3> HIDE DEF b, p
    <3>2. PortOK(q) /\ q.tx = p.tx /\ q.len = 0 /\ q.state = p.state
      <4>1. p \in Ports
        BY <1>4 DEF PortOK
      <4>2. /\ q \in Ports /\ q.tx = p.tx /\ q.len = p.len /\ q.state = p.state
            /\ q.buf = p.buf
        BY <3>1, <4>1 DEF Ports
      <4> HIDE DEF q
      <4> QED BY <1>4, <4>2 DEF PortOK
    <3> HIDE DEF q
    <3>3. /\ PortOK(r) /\ r.tx = q.tx
          /\ r.state = "WAIT_ACK" => q.state = "WAIT_ACK"
          /\ r.len > 0 => AtLrc(q)
          /\ r.len > 0 /\ mode # "STX" => ~r.rxFlag
      BY <1>0, <3>1, <3>2, DataLinkRxOK DEF AuxTyped
    <3> HIDE DEF r
    <3>4. new = r
      BY <1>0, <2>2 DEF AuxTyped
    <3>5. Answer(q, b) \in Seq(Bytes)
      <4>1. ACK \in Bytes /\ NAK \in Bytes
        BY DEF ACK, NAK, Bytes
      <4> QED BY <4>1, AcksType DEF Answer
    <3>6. line' \in [Ends -> Seq(Bytes)]
      <4> DEFINE rest == IF mode = "STX" /\ TooLong(q) THEN <<>> ELSE Tail(line[e])
                 more == line[Other(e)] \o Answer(q, b)
      <4>1. rest \in Seq(Bytes) /\ more \in Seq(Bytes)
        BY <1>0, <3>1, <3>5, EndsFacts DEF AuxTyped
      <4>2. line' = [line EXCEPT ![e] = rest, ![Other(e)] = more]
        BY <1>0, <2>2, EndsFacts DEF AuxTyped
      <4> HIDE DEF rest, more
      <4> QED BY <1>0, <4>1, <4>2 DEF AuxTyped
    <3>7. rcvd' = [rcvd EXCEPT ![e] = IF new.len > 0 THEN Append(@, new.buf) ELSE @]
      BY <2>2, <3>3, <3>4
    <3>8. port' = [port EXCEPT ![e] = new]
      BY <2>2, <3>4
    <3> QED BY <1>4, <3>2, <3>3, <3>4, <3>6, <3>7, <3>8
  <2> QED BY <1>3, <2>1, <2>2
<1> HIDE DEF p, b, q, r, new
<1>6. AuxTyped'
  <2>1. port' \in [Ends -> Ports]
    BY <1>0, <1>5 DEF AuxTyped, PortOK
  <2>2. rcvd' \in [Ends -> Seq(Seq(Bytes))]
    <3>1. new.buf \in Seq(Bytes)
      BY <1>5 DEF PortOK, Ports
    <3>2. Append(rcvd[e], new.buf) \in Seq(Seq(Bytes))
      BY <1>0, <3>1 DEF AuxTyped
    <3> QED BY <1>0, <1>5, <3>2 DEF AuxTyped
  <2>3. /\ app' \in [Ends -> {"talk", "wait", "again", "listen", "ready"}]
        /\ hit' \in [Ends -> BOOLEAN]
    BY <1>0, <1>2 DEF AuxTyped
  <2>4. settings' \in Settings /\ faults' \in 0..Faults'[timing']
    BY <1>0, <1>1 DEF AuxTyped, settings
  <2> QED BY <1>0, <1>1, <1>5, <2>1, <2>2, <2>3, <2>4 DEF AuxTyped
<1>7. port'[e] = new /\ new.len \in Nat
  BY <1>5 DEF new, PortOK, Ports
<1>8. app'[e] = IF new.len > 0 THEN "ready" ELSE "listen"
  BY <1>0, <1>2, <1>7 DEF AuxTyped
<1>9. EndOK(e)'
  BY <1>0, <1>1, <1>5, <1>7, <1>8 DEF EndOK
<1>10. KeptEnd(e)'
  <2> SUFFICES ASSUME timing = "timely", mode # "STX"
               PROVE  /\ new.len > 0 => ~new.rxFlag /\ due[e] # "tob"
                      /\ rcvd'[e] = got[e] \o Waiting(e)'
    BY <1>1, <1>7 DEF KeptEnd, settings
  <2>1. due[e] = "none"
    BY <1>0 DEF CanRun
  <2>2. rcvd[e] = got[e] /\ got[e] \in Seq(Seq(Bytes))
    BY <1>0 DEF KeptEnd, Waiting, AuxTyped
  <2>3. rcvd'[e] = IF new.len > 0 THEN Append(rcvd[e], new.buf) ELSE rcvd[e]
    BY <1>0, <1>5 DEF AuxTyped
  <2>4. Waiting(e)' = IF new.len > 0 THEN <<new.buf>> ELSE <<>>
    BY <1>7 DEF Waiting
  <2>5. new.buf \in Seq(Bytes)
    BY <1>5 DEF PortOK, Ports
  <2>6. rcvd'[e] = got[e] \o Waiting(e)'
    <3>1. Append(got[e], new.buf) = got[e] \o <<new.buf>> /\ got[e] \o <<>> = got[e]
      BY <2>2, <2>5, AppendFacts
    <3> QED BY <2>2, <2>3, <2>4, <3>1
  <2> QED BY <1>5, <2>1, <2>6
<1>11. \A x \in Ends : x # e => /\ port'[x] = port[x] /\ due'[x] = due[x]
                                /\ app'[x] = app[x] /\ got'[x] = got[x]
                                /\ rcvd'[x] = rcvd[x]
  BY <1>0, <1>1, <1>2, <1>5 DEF AuxTyped
<1> QED BY <1>1, <1>6, <1>9, <1>10, <1>11, OneEnd

\* The application takes the message that waits for it.
LEMMA RxStringInv ==
  ASSUME AuxInv, NEW e \in Ends, RxString(e)
  PROVE  AuxInv'
<1>0. AuxTyped /\ EndOK(e) /\ KeptEnd(e) /\ port[e] \in Ports /\ port[e].len \in Nat
  BY DEF AuxInv, EndOK, PortOK, Ports
<1>1. /\ UNCHANGED settings
      /\ UNCHANGED <<due, posted, outcome, rcvd, faults, refusals, hit>>
  BY DEF RxString
<1>2. CASE port[e].len > 0
  <2> DEFINE q == [port[e] EXCEPT !.len = 0, !.buf = <<>>, !.first = 0]
             acks == IF ackMode THEN Repeat(ACK, Acks) ELSE <<>>
  <2>1. /\ got' = [got EXCEPT ![e] = Append(@, port[e].buf)]
        /\ port' = [port EXCEPT ![e].len = 0, ![e].buf = <<>>, ![e].first = 0]
        /\ line' = [line EXCEPT ![Other(e)] = @ \o acks]
        /\ app' = [app EXCEPT ![e] = AfterListen(e)]
    BY <1>2 DEF RxString
  <2>2. port' = [port EXCEPT ![e] = q]
    BY <1>0, <2>1 DEF AuxTyped
  <2>3. 0 \in Bytes /\ <<>> \in Seq(Bytes) /\ Len(<<>>) = 0 /\ BufferSize \in Nat
    BY <1>0, SettingsFacts DEF AuxTyped, Bytes
  <2>4. /\ q \in Ports /\ q.len = 0 /\ q.buf = <<>> /\ q.tx = port[e].tx
        /\ q.state = port[e].state
    BY <1>0, <2>3 DEF Ports
  <2>5. acks \in Seq(Bytes)
    <3>1. ACK \in Bytes
      BY DEF ACK, Bytes
    <3> QED BY <2>3, <3>1, AcksType
  <2> HIDE DEF q, acks
  <2>6. port'[e] = q /\ PortOK(q)
    BY <1>0, <2>2, <2>3, <2>4 DEF AuxTyped, PortOK
  <2>7. port[e].buf \in Seq(Bytes) /\ got[e] \in Seq(Seq(Bytes)) /\ app'[e] \in {"talk", "listen"}
    BY <1>0, <2>1 DEF Ports, AuxTyped, AfterListen
  <2>8. AuxTyped'
    <3>1. line' \in [Ends -> Seq(Bytes)]
      BY <1>0, <2>1, <2>5, EndsFacts, LineOK
    <3>2. Append(got[e], port[e].buf) \in Seq(Seq(Bytes))
      BY <2>7
    <3>3. /\ got' \in [Ends -> Seq(Seq(Bytes))] /\ port' \in [Ends -> Ports]
          /\ app' \in [Ends -> {"talk", "wait", "again", "listen", "ready"}]
      <4>1. got' \in [Ends -> Seq(Seq(Bytes))]
        BY <1>0, <2>1, <3>2 DEF AuxTyped
      <4>2. port' \in [Ends -> Ports]
        BY <1>0, <2>2, <2>4 DEF AuxTyped
      <4>3. app' \in [Ends -> {"talk", "wait", "again", "listen", "ready"}]
        BY <1>0, <2>1 DEF AuxTyped, AfterListen
      <4> QED BY <4>1, <4>2, <4>3
    <3>4. settings' \in Settings /\ faults' \in 0..Faults'[timing']
      BY <1>0, <1>1 DEF AuxTyped, settings
    <3> QED BY <1>0, <1>1, <3>1, <3>3, <3>4 DEF AuxTyped
  <2>9. EndOK(e)'
    BY <1>0, <1>1, <2>4, <2>6, <2>7 DEF EndOK
  <2>10. KeptEnd(e)'
    <3>1. ~(0 > 0) /\ Waiting(e)' = <<>> /\ Waiting(e) = <<port[e].buf>>
      BY <1>2, <2>4, <2>6 DEF Waiting
    <3>2. got'[e] = Append(got[e], port[e].buf)
      BY <1>0, <2>1 DEF AuxTyped
    <3>3. Append(got[e], port[e].buf) \o <<>> = got[e] \o <<port[e].buf>>
      BY <2>7, AppendFacts
    <3> QED BY <1>0, <1>1, <2>4, <2>6, <3>1, <3>2, <3>3 DEF KeptEnd, settings
  <2>11. \A x \in Ends : x # e => /\ port'[x] = port[x] /\ due'[x] = due[x]
                                  /\ app'[x] = app[x] /\ got'[x] = got[x]
                                  /\ rcvd'[x] = rcvd[x]
    BY <1>0, <1>1, <2>1, <2>2 DEF AuxTyped
  <2> QED BY <1>1, <2>8, <2>9, <2>10, <2>11, OneEnd
<1>3. CASE ~(port[e].len > 0)
  <2>1. app' = [app EXCEPT ![e] = "listen"] /\ UNCHANGED <<got, port, line>>
    BY <1>3 DEF RxString
  <2>2. AuxTyped'
    BY <1>0, <1>1, <2>1 DEF AuxTyped, settings
  <2>3. EndOK(e)' /\ KeptEnd(e)'
    BY <1>0, <1>1, <1>3, <2>1 DEF AuxTyped, EndOK, KeptEnd, Waiting, settings
  <2>4. \A x \in Ends : x # e => /\ port'[x] = port[x] /\ due'[x] = due[x]
                                 /\ app'[x] = app[x] /\ got'[x] = got[x]
                                 /\ rcvd'[x] = rcvd[x]
    BY <1>0, <1>1, <2>1 DEF AuxTyped
  <2> QED BY <1>1, <2>2, <2>3, <2>4, OneEnd
<1> QED BY <1>2, <1>3

----------------------------------------------------------------------------
\* The steps of the timer thread.

LEMMA TimerLooksInv ==
  ASSUME AuxInv, NEW e \in Ends, TimerLooks(e)
  PROVE  AuxInv'
<1>0. AuxTyped /\ EndOK(e) /\ KeptEnd(e)
  BY DEF AuxInv
<1>1. /\ UNCHANGED settings
      /\ UNCHANGED <<port, line, app, posted, outcome, rcvd, got, faults, refusals, hit>>
  BY DEF TimerLooks, history
<1>2. \/ port[e].state = "WAIT_ACK" /\ due' = [due EXCEPT ![e] = "resend"]
      \/ port[e].rxFlag /\ due' = [due EXCEPT ![e] = "tob"]
  BY DEF TimerLooks
<1>3. AuxTyped'
  BY <1>0, <1>1, <1>2 DEF AuxTyped, settings
<1>4. \/ port[e].state = "WAIT_ACK" /\ due'[e] = "resend"
      \/ port[e].rxFlag /\ due'[e] = "tob"
  BY <1>0, <1>2 DEF AuxTyped
<1>5. EndOK(e)'
  BY <1>0, <1>1, <1>4 DEF EndOK
<1>6. KeptEnd(e)'
  <2>1. Waiting(e)' = Waiting(e)
    BY <1>1 DEF Waiting
  <2> QED BY <1>0, <1>1, <1>4, <2>1 DEF KeptEnd, settings
<1>7. \A x \in Ends : x # e => /\ port'[x] = port[x] /\ due'[x] = due[x]
                               /\ app'[x] = app[x] /\ got'[x] = got[x]
                               /\ rcvd'[x] = rcvd[x]
  BY <1>0, <1>1, <1>2 DEF AuxTyped
<1> QED BY <1>1, <1>3, <1>5, <1>6, <1>7, OneEnd

LEMMA TimerCountsInv ==
  ASSUME AuxInv, NEW e \in Ends, TimerCounts(e)
  PROVE  AuxInv'
<1> DEFINE p == port[e]
<1>0. /\ AuxTyped /\ EndOK(e) /\ KeptEnd(e) /\ PortOK(p) /\ p.tx # <<>>
  BY DEF AuxInv, EndOK, TimerCounts
<1>1. /\ UNCHANGED settings
      /\ UNCHANGED <<line, app, posted, outcome, rcvd, got, faults, refusals, hit>>
  BY DEF TimerCounts, history
<1>2. PICK q \in {p, Exhausted(p)} :
        \E v \in {"none", "clear", "set"} :
          port' = [port EXCEPT ![e] = q] /\ due' = [due EXCEPT ![e] = v]
  <2>1. [port EXCEPT ![e] = p] = port
    BY <1>0 DEF AuxTyped
  <2> QED BY <2>1 DEF TimerCounts
<1>3. PICK v \in {"none", "clear", "set"} :
        port' = [port EXCEPT ![e] = q] /\ due' = [due EXCEPT ![e] = v]
  BY <1>2
<1>4. Keeps(q, p)
  BY <1>0, ExhaustedOK DEF Keeps
<1> HIDE DEF p
<1>5. AuxTyped'
  <2>1. port' \in [Ends -> Ports] /\ due' \in [Ends -> {"none", "resend", "clear", "set", "tob"}]
    BY <1>0, <1>3, <1>4 DEF AuxTyped, Keeps, PortOK
  <2>2. settings' \in Settings /\ faults' \in 0..Faults'[timing']
    BY <1>0, <1>1 DEF AuxTyped, settings
  <2> QED BY <1>0, <1>1, <2>1, <2>2 DEF AuxTyped
<1>6. port'[e] = q /\ due'[e] = v /\ v # "tob"
  BY <1>0, <1>3 DEF AuxTyped
<1>7. EndOK(e)'
  BY <1>0, <1>1, <1>4, <1>6 DEF EndOK, Keeps, p
<1>8. KeptEnd(e)'
  <2>1. Waiting(e)' = Waiting(e)
    BY <1>4, <1>6 DEF Waiting, Keeps, p
  <2> QED BY <1>0, <1>1, <1>4, <1>6, <2>1 DEF KeptEnd, Keeps, settings, p
<1>9. \A x \in Ends : x # e => /\ port'[x] = port[x] /\ due'[x] = due[x]
                               /\ app'[x] = app[x] /\ got'[x] = got[x]
                               /\ rcvd'[x] = rcvd[x]
  BY <1>0, <1>1, <1>3 DEF AuxTyped
<1> QED BY <1>1, <1>5, <1>7, <1>8, <1>9, OneEnd

LEMMA TimerResendsInv ==
  ASSUME AuxInv, NEW e \in Ends, TimerResends(e)
  PROVE  AuxInv'
<1> DEFINE p == port[e]
<1>0. /\ AuxTyped /\ EndOK(e) /\ KeptEnd(e) /\ PortOK(p) /\ p.tx # <<>>
  BY DEF AuxInv, EndOK, TimerResends
<1>1. PICK r \in ResendPackage(p, due[e] = "set") :
        /\ port' = [port EXCEPT ![e] = r.port]
        /\ line' = [line EXCEPT ![Other(e)] = @ \o r.bytes]
        /\ CountRefusal(r)
  BY DEF TimerResends
<1>2. /\ UNCHANGED settings /\ due' = [due EXCEPT ![e] = "none"]
      /\ UNCHANGED <<app, posted, outcome, rcvd, got, faults, hit>>
  BY DEF TimerResends, history
<1> HIDE DEF p
<1>3. /\ Keeps(r.port, p) /\ Writes(r, p)
      /\ r.bytes = <<>> => CanWriteFail
  <2>1. (due[e] = "set") \in BOOLEAN
    OBVIOUS
  <2> QED BY <1>0, <1>1, <2>1, ResendPackageOK
<1>4. AuxTyped'
  <2>1. refusals' \in 0..Refusals
    <3> DEFINE refused == r.bytes = <<>>
    <3>1. refused \in BOOLEAN /\ (refused => CanWriteFail)
      BY <1>3
    <3>2. refusals' = refusals + (IF refused THEN 1 ELSE 0)
      BY <1>1 DEF CountRefusal
    <3> HIDE DEF refused
    <3> QED BY <1>0, <3>1, <3>2, RefusalsOK
  <2>2. line' \in [Ends -> Seq(Bytes)]
    BY <1>0, <1>1, <1>3, EndsFacts, LineOK DEF Writes
  <2>3. port' \in [Ends -> Ports]
    BY <1>0, <1>1, <1>3 DEF AuxTyped, Keeps, PortOK
  <2>4. settings' \in Settings /\ faults' \in 0..Faults'[timing']
    BY <1>0, <1>2 DEF AuxTyped, settings
  <2>5. due' \in [Ends -> {"none", "resend", "clear", "set", "tob"}]
    BY <1>0, <1>2 DEF AuxTyped
  <2> QED BY <1>0, <1>2, <2>1, <2>2, <2>3, <2>4, <2>5 DEF AuxTyped
<1>5. port'[e] = r.port /\ due'[e] = "none"
  BY <1>0, <1>1, <1>2 DEF AuxTyped
<1>6. EndOK(e)'
  BY <1>0, <1>2, <1>3, <1>5 DEF EndOK, Keeps, p
<1>7. KeptEnd(e)'
  <2>1. Waiting(e)' = Waiting(e)
    BY <1>3, <1>5 DEF Waiting, Keeps, p
  <2> QED BY <1>0, <1>2, <1>3, <1>5, <2>1 DEF KeptEnd, Keeps, settings, p
<1>8. \A x \in Ends : x # e => /\ port'[x] = port[x] /\ due'[x] = due[x]
                               /\ app'[x] = app[x] /\ got'[x] = got[x]
                               /\ rcvd'[x] = rcvd[x]
  BY <1>0, <1>1, <1>2 DEF AuxTyped
<1> QED BY <1>2, <1>4, <1>6, <1>7, <1>8, OneEnd

\* On a timely system there is no complete message to discard.
LEMMA TimerDiscardsInv ==
  ASSUME AuxInv, NEW e \in Ends, TimerDiscards(e)
  PROVE  AuxInv'
<1> DEFINE p == port[e]
           q == [Discard(p) EXCEPT !.buf = <<>>]
<1>0. AuxTyped /\ EndOK(e) /\ KeptEnd(e) /\ PortOK(p) /\ p \in Ports /\ due[e] = "tob"
  BY DEF AuxInv, EndOK, PortOK, TimerDiscards
<1>1. port' = [port EXCEPT ![e] = q]
  BY <1>0 DEF TimerDiscards, AuxTyped
<1>2. /\ UNCHANGED settings /\ due' = [due EXCEPT ![e] = "none"]
      /\ UNCHANGED <<line, app, posted, outcome, rcvd, got, faults, refusals, hit>>
  BY DEF TimerDiscards, history
<1>3. <<>> \in Seq(Bytes) /\ Len(<<>>) = 0 /\ BufferSize \in Nat
  BY <1>0, SettingsFacts DEF AuxTyped
<1>4. /\ q \in Ports /\ q.len = 0 /\ q.buf = <<>> /\ q.tx = p.tx /\ q.state = "IDLE"
  BY <1>0, <1>3 DEF Discard, Ports, States
<1> HIDE DEF q
<1>5. PortOK(q)
  BY <1>3, <1>4 DEF PortOK
<1>6. AuxTyped'
  BY <1>0, <1>1, <1>2, <1>4 DEF AuxTyped, settings
<1>7. port'[e] = q /\ due'[e] = "none"
  BY <1>0, <1>1, <1>2 DEF AuxTyped
<1>8. EndOK(e)'
  BY <1>0, <1>2, <1>4, <1>5, <1>7 DEF EndOK
<1>9. KeptEnd(e)'
  <2> SUFFICES ASSUME timing = "timely", mode # "STX"
               PROVE  rcvd[e] = got[e] \o Waiting(e)'
    BY <1>2, <1>4, <1>7 DEF KeptEnd, settings
  <2>1. ~(p.len > 0) /\ rcvd[e] = got[e] \o Waiting(e)
    BY <1>0 DEF KeptEnd
  <2>2. Waiting(e)' = <<>> /\ Waiting(e) = <<>>
    BY <1>4, <1>7, <2>1 DEF Waiting
  <2> QED BY <2>1, <2>2
<1>10. \A x \in Ends : x # e => /\ port'[x] = port[x] /\ due'[x] = due[x]
                                /\ app'[x] = app[x] /\ got'[x] = got[x]
                                /\ rcvd'[x] = rcvd[x]
  BY <1>0, <1>1, <1>2 DEF AuxTyped
<1> QED BY <1>2, <1>6, <1>8, <1>9, <1>10, OneEnd

----------------------------------------------------------------------------
\* The line, and a step that changes nothing.

LEMMA StrikeInv ==
  ASSUME AuxInv, NEW e \in Ends, NEW bytes \in Seq(Bytes), Strike(e, bytes)
  PROVE  AuxInv'
<1>0. AuxTyped /\ EndOK(e) /\ KeptEnd(e)
  BY DEF AuxInv
<1>1. /\ UNCHANGED settings
      /\ UNCHANGED <<port, due, app, posted, outcome, rcvd, got, refusals>>
  BY DEF Strike, history
<1>2. faults' \in 0..Faults'[timing']
  BY <1>0, SettingsFacts, SMTT(30) DEF AuxTyped, Strike, settings
<1>3. line' \in [Ends -> Seq(Bytes)] /\ hit' \in [Ends -> BOOLEAN]
  BY <1>0 DEF AuxTyped, Strike
<1>4. AuxTyped'
  BY <1>0, <1>1, <1>2, <1>3 DEF AuxTyped, settings
<1>5. EndOK(e)' /\ KeptEnd(e)'
  BY <1>0, <1>1 DEF EndOK, KeptEnd, Waiting, settings
<1> QED BY <1>1, <1>4, <1>5, OneEnd

LEMMA LineInv ==
  ASSUME AuxInv, NEW e \in Ends, Lose(e) \/ Damage(e)
  PROVE  AuxInv'
<1>0. line[e] \in Seq(Bytes) /\ line[e] # <<>>
  BY DEF AuxInv, AuxTyped, Lose, Damage
<1>1. CASE Lose(e)
  <2>1. Tail(line[e]) \in Seq(Bytes)
    BY <1>0
  <2> QED BY <1>1, <2>1, StrikeInv DEF Lose
<1>2. CASE Damage(e)
  <2>1. PICK b \in Noise : Strike(e, [line[e] EXCEPT ![1] = b])
    BY <1>2 DEF Damage
  <2>2. [line[e] EXCEPT ![1] = b] \in Seq(Bytes)
    BY <1>0, AuxAssumption
  <2> QED BY <2>1, <2>2, StrikeInv
<1> QED BY <1>1, <1>2

LEMMA StutterInv == AuxInv /\ UNCHANGED vars => AuxInv'
<1> SUFFICES ASSUME AuxInv, UNCHANGED vars PROVE AuxInv'
  OBVIOUS
<1>1. UNCHANGED <<port, line, due, app, outcome, rcvd, got, faults, refusals, hit>>
  BY DEF vars, history
<1>2. UNCHANGED settings
  BY DEF vars
<1>3. AuxTyped'
  BY <1>1, <1>2 DEF AuxInv, AuxTyped, settings
<1>4. \A e \in Ends : EndOK(e)' /\ KeptEnd(e)'
  BY <1>1, <1>2 DEF AuxInv, EndOK, KeptEnd, Waiting, settings
<1> QED BY <1>3, <1>4 DEF AuxInv

LEMMA StepInv == AuxInv /\ [Next]_vars => AuxInv'
<1> SUFFICES ASSUME AuxInv, [Next]_vars PROVE AuxInv'
  OBVIOUS
<1>1. CASE \E e \in Ends : Call(e)
  <2>1. PICK e \in Ends : Call(e)
    BY <1>1
  <2> QED BY <2>1, TxStringInv, TxReadyInv, TxAgainInv, GiveUpInv, RxReadyInv, RxStringInv
         DEF Call
<1>2. CASE \E e \in Ends : Timer(e)
  BY <1>2, TimerLooksInv, TimerCountsInv, TimerResendsInv, TimerDiscardsInv DEF Timer
<1>3. CASE \E e \in Ends : Lose(e) \/ Damage(e)
  BY <1>3, LineInv
<1>4. CASE Done \/ UNCHANGED vars
  BY <1>4, StutterInv DEF Done
<1> QED BY <1>1, <1>2, <1>3, <1>4 DEF Next

LEMMA AuxInvariant == Spec => []AuxInv
<1> QED BY InitAux, StepInv, PTL DEF Spec

----------------------------------------------------------------------------
\* The count of retransmissions: on a timely system it is taken down only by the thread that
\* has just found that it is not zero, for the other one does not run in between.

CountEnd(e) ==
  timing = "timely" =>
    /\ port[e].resend <= MaxResend
    /\ due[e] \in {"clear", "set"} => port[e].resend > 0
    /\ app[e] = "again" => port[e].resend > 0 /\ due[e] = "none"

CountOK == \A e \in Ends : CountEnd(e)

\* What a step at one end that does not put a thread between the look and the rest shows.
LEMMA CountStep ==
  ASSUME CountOK, UNCHANGED settings, NEW e \in Ends,
         \A x \in Ends : x # e => port'[x] = port[x] /\ due'[x] = due[x] /\ app'[x] = app[x],
         CountEnd(e)'
  PROVE  CountOK'
<1>1. timing' = timing
  BY DEF settings
<1>2. ASSUME NEW x \in Ends, x # e PROVE CountEnd(x)'
  <2>1. CountEnd(x)
    BY DEF CountOK
  <2> QED BY <1>1, <1>2, <2>1 DEF CountEnd
<1> QED BY <1>2 DEF CountOK

LEMMA CountKept ==
  ASSUME CountOK, UNCHANGED <<settings, due>>, NEW e \in Ends,
         \A x \in Ends : x # e => port'[x] = port[x] /\ app'[x] = app[x],
         port'[e].resend = port[e].resend, app'[e] # "again"
  PROVE  CountOK'
<1>1. CountEnd(e)
  BY DEF CountOK
<1>2. CountEnd(e)'
  BY <1>1 DEF CountEnd, settings
<1> QED BY <1>2, CountStep

\* The receiver does not touch the count.
LEMMA ReceiverCount ==
  ASSUME NEW p \in Ports, NEW b
  PROVE  /\ Restart(p).resend = p.resend
         /\ DataLinkRx(p, b).resend = p.resend
<1>1. Restart(p).resend = p.resend
  BY DEF Restart, Ports
<1>2. Discard(p).resend = p.resend /\ RxIdle(p, b).resend = p.resend
  BY DEF Discard, RxIdle, Ports
<1>3. RxLen(p, b).resend = p.resend
  BY DEF RxLen, Ports
<1>4. RxData(p, b).resend = p.resend
  BY DEF RxData, Ports
<1>5. RxLrc(p, b).resend = p.resend
  BY DEF RxLrc, RxEnd, Ports
<1>6. DataLinkRx(p, b) \in {p, Discard(p), RxIdle(p, b), RxLen(p, b), RxData(p, b), RxLrc(p, b)}
  BY DEF DataLinkRx
<1> QED BY <1>1, <1>2, <1>3, <1>4, <1>5, <1>6

LEMMA TxStringCount ==
  ASSUME AuxInv, CountOK, NEW e \in Ends, NEW m \in Messages, TxString(e, m)
  PROVE  CountOK'
<1> DEFINE p == [port[e] EXCEPT !.status = "BUSY", !.tx = Package(m),
                                !.resend = MaxResend, !.state = "WAIT_ACK"]
<1>1. PICK r \in SendPackage(p) :
        /\ port' = [port EXCEPT ![e] = r.port]
        /\ app' = [app EXCEPT ![e] = IF r.bytes = <<>> THEN "talk" ELSE "wait"]
  BY DEF TxString
<1>2. UNCHANGED settings /\ UNCHANGED due /\ CanRun(e)
  BY DEF TxString
<1>3. AuxTyped /\ port[e] \in Ports
  BY DEF AuxInv, AuxTyped
<1>4. p.resend = MaxResend
  BY <1>3 DEF Ports
<1>5. r.port = [p EXCEPT !.nak = FALSE, !.txFlag = TRUE] \/ r.port = [p EXCEPT !.nak = FALSE]
  <2>1. r \in {Sent([p EXCEPT !.nak = FALSE, !.txFlag = TRUE], p.tx),
               Sent([p EXCEPT !.nak = FALSE], <<>>)}
    BY DEF SendPackage
  <2> HIDE DEF p
  <2>2. CASE r = Sent([p EXCEPT !.nak = FALSE, !.txFlag = TRUE], p.tx)
    BY <2>2 DEF Sent
  <2>3. CASE r = Sent([p EXCEPT !.nak = FALSE], <<>>)
    BY <2>3 DEF Sent
  <2> QED BY <2>1, <2>2, <2>3
<1>6. r.port.resend = MaxResend
  BY <1>3, <1>4, <1>5 DEF Ports
<1> HIDE DEF p
<1>7. /\ port'[e].resend = MaxResend /\ app'[e] # "again"
      /\ \A x \in Ends : x # e => port'[x] = port[x] /\ app'[x] = app[x]
  BY <1>1, <1>3, <1>6 DEF AuxTyped
<1>8. timing = "timely" => due'[e] = "none"
  BY <1>2 DEF CanRun
<1>9. CountEnd(e)'
  <2>1. MaxResend <= MaxResend
    BY AuxAssumption
  <2> QED BY <1>2, <1>7, <1>8, <2>1 DEF CountEnd, settings
<1> QED BY <1>2, <1>7, <1>9, CountStep

LEMMA TxReadyCount ==
  ASSUME AuxInv, CountOK, NEW e \in Ends, TxReady(e)
  PROVE  CountOK'
<1> DEFINE p == port[e]
           q == IF line[e] = <<>> THEN p ELSE TakeAnswer(p, line[e][1])
           again == line[e] # <<>> /\ Resends(p, line[e][1])
<1>1. /\ AuxTyped /\ EndOK(e) /\ app[e] = "wait" /\ p \in Ports /\ p.len = 0 /\ PortOK(p)
      /\ settings \in Settings /\ CanRun(e)
  <2>1. AuxTyped /\ EndOK(e) /\ app[e] = "wait" /\ CanRun(e)
    BY DEF AuxInv, TxReady
  <2> QED BY <2>1, NotReady DEF EndOK, AuxTyped
<1>2. /\ again => /\ port' = [port EXCEPT ![e] = q] /\ app' = [app EXCEPT ![e] = "again"]
      /\ ~again => Told(e, q)
      /\ UNCHANGED settings /\ UNCHANGED due
  BY DEF TxReady
<1>3. PortOK(q) /\ q.len = 0 /\ q.resend = p.resend
  BY <1>1, TakeAnswerOK
<1>4. again => p.resend > 0
  BY DEF Resends, CanResend
<1> HIDE DEF q, again
<1>5. CASE again
  <2>1. /\ port'[e] = q /\ app'[e] = "again"
        /\ \A x \in Ends : x # e => port'[x] = port[x] /\ app'[x] = app[x]
    BY <1>1, <1>2, <1>5 DEF AuxTyped
  <2>2. timing = "timely" => due[e] = "none"
    BY <1>1 DEF CanRun
  <2>3. CountEnd(e)
    BY DEF CountOK
  <2>4. CountEnd(e)'
    BY <1>2, <1>3, <1>4, <1>5, <2>1, <2>2, <2>3 DEF CountEnd, settings
  <2> QED BY <1>2, <2>1, <2>4, CountStep
<1>6. CASE ~again
  <2> HIDE DEF p
  <2>1. /\ port'[e].resend = q.resend /\ app'[e] # "again"
        /\ \A x \in Ends : x # e => port'[x] = port[x] /\ app'[x] = app[x]
    BY <1>1, <1>2, <1>3, <1>6, ToldOK
  <2> QED BY <1>2, <1>3, <2>1, CountKept DEF p
<1> QED BY <1>5, <1>6

\* A count that is not zero is one less afterwards.
LEMMA OneLess ==
  ASSUME NEW n \in 0..(Counts-1), n > 0
  PROVE  (n - 1) % Counts = n - 1
<1>1. Counts \in Nat /\ n - 1 \in 0..(Counts-1)
  BY AuxAssumption
<1> QED BY <1>1

LEMMA TxAgainCount ==
  ASSUME AuxInv, CountOK, NEW e \in Ends, TxAgain(e)
  PROVE  CountOK'
<1> DEFINE p == port[e]
<1>1. /\ AuxTyped /\ EndOK(e) /\ app[e] = "again" /\ PortOK(p) /\ p.len = 0 /\ p.tx # <<>>
      /\ p.resend \in 0..(Counts-1)
  <2>1. AuxTyped /\ EndOK(e) /\ app[e] = "again"
    BY DEF AuxInv, TxAgain
  <2> QED BY <2>1, NotReady DEF EndOK, PortOK, Ports
<1>2. PICK r \in ResendPackage(p, TRUE) :
        Told(e, IF r.bytes = <<>> THEN [r.port EXCEPT !.status = "ERROR"] ELSE r.port)
  BY DEF TxAgain
<1>3. UNCHANGED settings /\ UNCHANGED due
  BY DEF TxAgain
<1> HIDE DEF p
<1>4. PortOK(r.port) /\ r.port.len = 0 /\ r.port.resend = (p.resend - 1) % Counts
  BY <1>1, <1>2, ResendPackageOK DEF Keeps
<1> DEFINE q == IF r.bytes = <<>> THEN [r.port EXCEPT !.status = "ERROR"] ELSE r.port
<1>5. PortOK(q) /\ q.len = 0 /\ q.resend = r.port.resend
  <2>1. q \in Ports /\ q.len = 0 /\ q.buf = r.port.buf /\ q.resend = r.port.resend
    BY <1>4 DEF PortOK, Ports
  <2> HIDE DEF q
  <2> QED BY <1>4, <2>1 DEF PortOK
<1>6. Told(e, q)
  BY <1>2
<1> HIDE DEF q
<1>7. /\ port'[e].resend = q.resend /\ app'[e] # "again"
      /\ \A x \in Ends : x # e => port'[x] = port[x] /\ app'[x] = app[x]
  BY <1>1, <1>5, <1>6, ToldOK
<1>8. CountEnd(e)
  BY DEF CountOK
<1>9. CountEnd(e)'
  <2>1. timing = "timely" => p.resend > 0 /\ p.resend <= MaxResend /\ due[e] = "none"
    BY <1>1, <1>8 DEF CountEnd, p
  <2>2. p.resend > 0 => port'[e].resend = p.resend - 1
    BY <1>1, <1>4, <1>5, <1>7, OneLess
  <2>3. timing = "timely" => port'[e].resend <= MaxResend
    BY <1>1, <2>1, <2>2, AuxAssumption
  <2> QED BY <1>3, <1>7, <2>1, <2>3 DEF CountEnd, settings
<1> QED BY <1>3, <1>7, <1>9, CountStep

LEMMA RxReadyCount ==
  ASSUME AuxInv, CountOK, NEW e \in Ends, RxReady(e)
  PROVE  CountOK'
<1> DEFINE p == Restart(port[e])
           b == Head(line[e])
           q == [p EXCEPT !.first = IF p.buf = <<>> THEN b ELSE @]
           r == DataLinkRx(q, b)
<1>1. /\ UNCHANGED settings /\ UNCHANGED due
      /\ app' = [app EXCEPT ![e] = IF port'[e].len > 0 THEN "ready" ELSE "listen"]
      /\ port' = [port EXCEPT ![e] = p] \/ (line[e] # <<>> /\ port' = [port EXCEPT ![e] = r])
  BY DEF RxReady
<1>2. AuxTyped /\ port[e] \in Ports /\ PortOK(port[e]) /\ settings \in Settings
  BY DEF AuxInv, AuxTyped, EndOK
<1>3. p \in Ports /\ p.resend = port[e].resend
  BY <1>2, RestartOK, ReceiverCount DEF PortOK
<1>4. line[e] # <<>> => r.resend = port[e].resend
  <2> SUFFICES ASSUME line[e] # <<>> PROVE r.resend = port[e].resend
    OBVIOUS
  <2>1. b \in Bytes
    BY <1>2 DEF AuxTyped
  <2> HIDE DEF p, b
  <2>2. q \in Ports /\ q.resend = p.resend
    BY <1>3, <2>1 DEF Ports
  <2> HIDE DEF q
  <2> QED BY <1>3, <2>2, ReceiverCount
<1> HIDE DEF p, r
<1>5. /\ port'[e].resend = port[e].resend /\ app'[e] # "again"
      /\ \A x \in Ends : x # e => port'[x] = port[x] /\ app'[x] = app[x]
  BY <1>1, <1>2, <1>3, <1>4 DEF AuxTyped
<1> QED BY <1>1, <1>5, CountKept

LEMMA CallCount ==
  ASSUME AuxInv, CountOK, NEW e \in Ends, Call(e)
  PROVE  CountOK'
<1>1. AuxTyped /\ port[e] \in Ports
  BY DEF AuxInv, AuxTyped
<1>2. CASE GiveUp(e)
  <2>1. app' = [app EXCEPT ![e] = "talk"] /\ UNCHANGED settings /\ UNCHANGED <<port, due>>
    BY <1>2 DEF GiveUp
  <2>2. app'[e] # "again" /\ \A x \in Ends : x # e => app'[x] = app[x]
    BY <1>1, <2>1 DEF AuxTyped
  <2> QED BY <2>1, <2>2, CountKept
<1>3. CASE RxString(e)
  <2>1. /\ \/ app' = [app EXCEPT ![e] = AfterListen(e)] \/ app' = [app EXCEPT ![e] = "listen"]
        /\ \/ port' = [port EXCEPT ![e].len = 0, ![e].buf = <<>>, ![e].first = 0]
           \/ port' = port
        /\ UNCHANGED settings /\ UNCHANGED due
    BY <1>3 DEF RxString
  <2>2. app'[e] # "again" /\ \A x \in Ends : x # e => app'[x] = app[x]
    BY <1>1, <2>1 DEF AuxTyped, AfterListen
  <2>3. port'[e].resend = port[e].resend /\ \A x \in Ends : x # e => port'[x] = port[x]
    BY <1>1, <2>1 DEF AuxTyped, Ports
  <2> QED BY <2>1, <2>2, <2>3, CountKept
<1> QED BY <1>2, <1>3, TxStringCount, TxReadyCount, TxAgainCount, RxReadyCount DEF Call

LEMMA TimerCount ==
  ASSUME AuxInv, CountOK, NEW e \in Ends, Timer(e)
  PROVE  CountOK'
<1>1. AuxTyped /\ EndOK(e) /\ PortOK(port[e]) /\ port[e] \in Ports /\ CountEnd(e)
  BY DEF AuxInv, AuxTyped, EndOK, CountOK
<1>2. UNCHANGED settings /\ UNCHANGED app
  BY DEF Timer, TimerLooks, TimerCounts, TimerResends, TimerDiscards
<1>3. CASE TimerLooks(e)
  <2>1. /\ due' = [due EXCEPT ![e] = "resend"] \/ due' = [due EXCEPT ![e] = "tob"]
        /\ UNCHANGED port /\ CanLook(e)
    BY <1>3 DEF TimerLooks
  <2>2. due'[e] \in {"resend", "tob"} /\ \A x \in Ends : x # e => due'[x] = due[x]
    BY <1>1, <2>1 DEF AuxTyped
  <2>3. CountEnd(e)'
    BY <1>1, <1>2, <2>1, <2>2 DEF CountEnd, CanLook, settings
  <2> QED BY <1>2, <2>1, <2>2, <2>3, CountStep
<1>4. CASE TimerCounts(e)
  <2>1. \/ /\ port[e].resend > 0 /\ UNCHANGED port
           /\ due' = [due EXCEPT ![e] = "set"] \/ due' = [due EXCEPT ![e] = "clear"]
        \/ /\ due' = [due EXCEPT ![e] = "none"]
           /\ port' = [port EXCEPT ![e] = Exhausted(@)]
    BY <1>4 DEF TimerCounts, CanResend
  <2>2. due[e] = "resend"
    BY <1>4 DEF TimerCounts
  <2>3. /\ port'[e].resend = port[e].resend
        /\ due'[e] \in {"clear", "set"} => port[e].resend > 0
        /\ \A x \in Ends : x # e => port'[x] = port[x] /\ due'[x] = due[x]
    BY <1>1, <2>1, ExhaustedOK DEF AuxTyped
  <2>4. CountEnd(e)'
    BY <1>1, <1>2, <2>2, <2>3 DEF CountEnd, settings
  <2> QED BY <1>2, <2>3, <2>4, CountStep
<1>5. CASE TimerResends(e)
  <2> DEFINE p == port[e]
             flag == due[e] = "set"
  <2>1. PICK r \in ResendPackage(p, flag) : port' = [port EXCEPT ![e] = r.port]
    BY <1>5 DEF TimerResends
  <2>2. due[e] \in {"clear", "set"} /\ due' = [due EXCEPT ![e] = "none"]
    BY <1>5 DEF TimerResends
  <2>3. PortOK(p) /\ flag \in BOOLEAN /\ p.resend \in 0..(Counts-1)
    BY <1>1 DEF Ports
  <2> HIDE DEF p, flag
  <2>4. r.port.resend = (p.resend - 1) % Counts
    BY <2>1, <2>3, ResendPackageOK
  <2>5. /\ port'[e] = r.port /\ due'[e] = "none"
        /\ \A x \in Ends : x # e => port'[x] = port[x] /\ due'[x] = due[x]
    BY <1>1, <2>1, <2>2 DEF AuxTyped
  <2>6. timing = "timely" => p.resend > 0 /\ p.resend <= MaxResend /\ app[e] # "again"
    BY <1>1, <2>2 DEF CountEnd, p
  <2>7. p.resend > 0 => port'[e].resend = p.resend - 1
    BY <2>3, <2>4, <2>5, OneLess
  <2>8. timing = "timely" => port'[e].resend <= MaxResend
    BY <2>3, <2>6, <2>7, AuxAssumption
  <2>9. CountEnd(e)'
    BY <1>2, <2>5, <2>6, <2>8 DEF CountEnd, settings
  <2> QED BY <1>2, <2>5, <2>9, CountStep
<1>6. CASE TimerDiscards(e)
  <2>1. /\ port' = [port EXCEPT ![e] = [Discard(@) EXCEPT !.buf = <<>>]]
        /\ due' = [due EXCEPT ![e] = "none"] /\ due[e] = "tob"
    BY <1>6 DEF TimerDiscards
  <2>2. /\ port'[e].resend = port[e].resend /\ due'[e] = "none"
        /\ \A x \in Ends : x # e => port'[x] = port[x] /\ due'[x] = due[x]
    BY <1>1, <2>1 DEF AuxTyped, Discard, Ports
  <2>3. CountEnd(e)'
    BY <1>1, <1>2, <2>2 DEF CountEnd, settings
  <2> QED BY <1>2, <2>2, <2>3, CountStep
<1> QED BY <1>3, <1>4, <1>5, <1>6 DEF Timer

LEMMA CountInvariant == Spec => [](AuxInv /\ CountOK)
<1>1. Init => AuxInv /\ CountOK
  <2> SUFFICES ASSUME Init PROVE CountOK
    BY InitAux
  <2>1. ASSUME NEW e \in Ends PROVE CountEnd(e)
    <3>1. port[e] = FreshPort /\ due[e] = "none" /\ app[e] # "again"
      BY DEF Init
    <3>2. port[e].resend = MaxResend /\ MaxResend <= MaxResend
      BY <3>1, AuxAssumption DEF FreshPort
    <3> QED BY <3>1, <3>2 DEF CountEnd
  <2> QED BY <2>1 DEF CountOK
<1>2. AuxInv /\ CountOK /\ [Next]_vars => (AuxInv /\ CountOK)'
  <2> SUFFICES ASSUME AuxInv, CountOK, [Next]_vars PROVE CountOK'
    BY StepInv
  <2>1. ASSUME NEW e \in Ends, Lose(e) \/ Damage(e) PROVE UNCHANGED <<settings, port, due, app>>
    BY <2>1 DEF Lose, Damage, Strike
  <2>2. Done \/ UNCHANGED vars => UNCHANGED <<settings, port, due, app>>
    BY DEF Done, vars
  <2>3. UNCHANGED <<settings, port, due, app>> => CountOK'
    BY DEF CountOK, CountEnd, settings
  <2> QED BY <2>1, <2>2, <2>3, CallCount, TimerCount DEF Next
<1> QED BY <1>1, <1>2, PTL DEF Spec

----------------------------------------------------------------------------
\* Hearing obeys its definition: what a reader has heard grows by a byte.

IsHearing(h, r, bytes) ==
  h = [k \in 0..Len(bytes) |->
         IF k = 0 THEN [reader |-> r, said |-> <<>>]
         ELSE LET now == h[k-1]
              IN [reader |-> Reads(now.reader, bytes[k]),
                  said |-> now.said \o Verdict(now.reader, bytes[k])]]

HearingOn(now, b) ==
  [reader |-> Reads(now.reader, b), said |-> now.said \o Verdict(now.reader, b)]

\* h is what Hearing computes, up to the n-th byte.
Heard(h, r, bytes, n) ==
  /\ h = [k \in 0..n |-> h[k]]
  /\ h[0] = [reader |-> r, said |-> <<>>]
  /\ \A k \in 1..n : h[k] = HearingOn(h[k-1], bytes[k])

LEMMA HeardExists ==
  ASSUME NEW r, NEW bytes
  PROVE  \A n \in Nat : \E h : Heard(h, r, bytes, n)
<1> DEFINE S == {n \in Nat : \E h : Heard(h, r, bytes, n)}
<1>1. 0 \in S
  <2> DEFINE h == [k \in 0..0 |-> [reader |-> r, said |-> <<>>]]
  <2>1. h = [k \in 0..0 |-> h[k]] /\ h[0] = [reader |-> r, said |-> <<>>]
    OBVIOUS
  <2> HIDE DEF h
  <2>2. Heard(h, r, bytes, 0)
    BY <2>1 DEF Heard
  <2> QED BY <2>2
<1>2. ASSUME NEW n \in S PROVE n + 1 \in S
  <2>1. PICK h : Heard(h, r, bytes, n)
    OBVIOUS
  <2> DEFINE g == [k \in 0..(n + 1) |-> IF k = n + 1 THEN HearingOn(h[n], bytes[n + 1]) ELSE h[k]]
  <2>2. g = [k \in 0..(n + 1) |-> g[k]] /\ g[0] = h[0]
    OBVIOUS
  <2>3. ASSUME NEW k \in 1..(n + 1) PROVE g[k] = HearingOn(g[k-1], bytes[k])
    <3>1. CASE k = n + 1
      <4>1. g[k] = HearingOn(h[n], bytes[n + 1]) /\ g[k-1] = h[n]
        BY <3>1
      <4> HIDE DEF g
      <4> QED BY <3>1, <4>1
    <3>2. CASE k # n + 1
      <4>1. k \in 1..n /\ g[k] = h[k] /\ g[k-1] = h[k-1]
        BY <3>2
      <4> HIDE DEF g
      <4> QED BY <2>1, <4>1 DEF Heard
    <3> QED BY <3>1, <3>2
  <2> HIDE DEF g
  <2>4. Heard(g, r, bytes, n + 1)
    BY <2>1, <2>2, <2>3 DEF Heard
  <2> QED BY <2>4
<1>3. S = Nat
  <2>1. S \in SUBSET Nat
    OBVIOUS
  <2> HIDE DEF S
  <2> QED BY <1>1, <1>2, <2>1, Induction
<1> QED BY <1>3

LEMMA HearingDef ==
  ASSUME NEW r, NEW bytes, Len(bytes) \in Nat
  PROVE  \E h : Heard(h, r, bytes, Len(bytes)) /\ Hearing(r, bytes) = h[Len(bytes)]
<1> DEFINE n == Len(bytes)
           c == CHOOSE h : IsHearing(h, r, bytes)
<1>1. PICK f : Heard(f, r, bytes, n)
  BY HeardExists
<1>3. ASSUME NEW h, IsHearing(h, r, bytes) PROVE Heard(h, r, bytes, n)
  <2>0. n \in Nat
    OBVIOUS
  <2> HIDE DEF n
  <2>1. h = [k \in 0..n |-> h[k]] /\ 0 \in 0..n
    <3>1. DOMAIN h = 0..n
      BY <1>3, Zenon DEF IsHearing, n
    <3>2. h = [k \in DOMAIN h |-> h[k]]
      BY <1>3, Zenon DEF IsHearing, n
    <3> QED BY <2>0, <3>1, <3>2
  <2>2. \A k \in 0..n : h[k] = IF k = 0 THEN [reader |-> r, said |-> <<>>]
                               ELSE HearingOn(h[k-1], bytes[k])
    BY <1>3, Zenon DEF IsHearing, HearingOn, n
  <2>3. \A k \in 1..n : k \in 0..n /\ k # 0
    BY <2>0
  <2> QED BY <2>1, <2>2, <2>3 DEF Heard
<1>4. IsHearing(f, r, bytes)
  <2>0. n \in Nat
    OBVIOUS
  <2> HIDE DEF n
  <2>1. \A k \in 0..n : f[k] = IF k = 0 THEN [reader |-> r, said |-> <<>>]
                               ELSE LET now == f[k-1]
                                    IN [reader |-> Reads(now.reader, bytes[k]),
                                        said |-> now.said \o Verdict(now.reader, bytes[k])]
    <3> SUFFICES ASSUME NEW k \in 0..n, k # 0 PROVE f[k] = HearingOn(f[k-1], bytes[k])
      BY <1>1, Zenon DEF Heard, HearingOn
    <3>1. k \in 1..n
      BY <2>0
    <3> QED BY <1>1, <3>1 DEF Heard
  <2>2. f = [k \in 0..n |-> f[k]]
    BY <1>1 DEF Heard
  <2> QED BY <2>1, <2>2, Zenon DEF IsHearing, n
<1>5. IsHearing(c, r, bytes)
  BY <1>4, Zenon
<1>6. Hearing(r, bytes) = c[n]
  BY Zenon DEF Hearing, IsHearing, n
<1> QED BY <1>3, <1>5, <1>6

\* Nothing heard, and one more byte heard.
LEMMA HearingNone ==
  ASSUME NEW r
  PROVE  After(r, <<>>) = r /\ Said(r, <<>>) = <<>>
<1>1. Len(<<>>) = 0
  OBVIOUS
<1>2. PICK h : Heard(h, r, <<>>, 0) /\ Hearing(r, <<>>) = h[0]
  BY <1>1, HearingDef
<1>3. Hearing(r, <<>>) = [reader |-> r, said |-> <<>>]
  BY <1>2 DEF Heard
<1> QED BY <1>3 DEF After, Said

LEMMA HearingMore ==
  ASSUME NEW r, NEW bytes \in Seq(Bytes), NEW b \in Bytes
  PROVE  /\ After(r, Append(bytes, b)) = Reads(After(r, bytes), b)
         /\ Said(r, Append(bytes, b)) = Said(r, bytes) \o Verdict(After(r, bytes), b)
<1> DEFINE n == Len(bytes)
           more == Append(bytes, b)
<1>0. /\ n \in Nat /\ Len(more) = n + 1 /\ more[n + 1] = b
      /\ \A k \in 1..n : more[k] = bytes[k]
  OBVIOUS
<1>1. PICK f : Heard(f, r, bytes, n) /\ Hearing(r, bytes) = f[n]
  BY <1>0, HearingDef
<1>2. PICK g : Heard(g, r, more, n + 1) /\ Hearing(r, more) = g[n + 1]
  <2>1. more \in Seq(Bytes) /\ Len(more) = n + 1 /\ Len(more) \in Nat
    BY <1>0
  <2> HIDE DEF n, more
  <2> QED BY <2>1, HearingDef
<1> HIDE DEF n, more
<1>3. 0..n \subseteq {k \in 0..n : g[k] = f[k]}
  <2> DEFINE S == {k \in 0..n : g[k] = f[k]}
  <2>1. 0 \in S
    BY <1>0, <1>1, <1>2 DEF Heard
  <2>2. ASSUME NEW k \in 0..(n - 1), k \in S PROVE k + 1 \in S
    <3>1. k + 1 \in 1..n /\ k + 1 \in 1..(n + 1) /\ (k + 1) - 1 = k
      BY <1>0
    <3>2. f[k + 1] = HearingOn(f[k], bytes[k + 1])
      BY <1>1, <3>1 DEF Heard
    <3>3. g[k + 1] = HearingOn(g[k], more[k + 1])
      BY <1>2, <3>1 DEF Heard
    <3> QED BY <1>0, <2>2, <3>1, <3>2, <3>3
  <2> HIDE DEF S
  <2>3. 0..n \subseteq S
    BY <1>0, <2>1, <2>2, BoundedInduction
  <2> QED BY <2>3 DEF S
<1>4. g[n] = f[n]
  BY <1>0, <1>3
<1>5. g[n + 1] = HearingOn(f[n], b)
  <2>1. n + 1 \in 1..(n + 1) /\ (n + 1) - 1 = n
    BY <1>0
  <2>2. g[n + 1] = HearingOn(g[n], more[n + 1])
    BY <1>2, <2>1 DEF Heard
  <2> QED BY <1>0, <1>4, <2>2
<1>6. /\ Hearing(r, more).reader = Reads(Hearing(r, bytes).reader, b)
      /\ Hearing(r, more).said =
           Hearing(r, bytes).said \o Verdict(Hearing(r, bytes).reader, b)
  <2>1. Hearing(r, bytes) = f[n] /\ Hearing(r, more) = HearingOn(f[n], b)
    BY <1>1, <1>2, <1>5
  <2>2. /\ HearingOn(f[n], b).reader = Reads(f[n].reader, b)
        /\ HearingOn(f[n], b).said = f[n].said \o Verdict(f[n].reader, b)
    BY DEF HearingOn
  <2> QED BY <2>1, <2>2, Zenon
<1> QED BY <1>6 DEF After, Said, more

----------------------------------------------------------------------------
\* A reader is a port that has read nothing yet or a part of a package.

Readers == {r \in Ports : PortOK(r) /\ r.len = 0 /\ r.state # "WAIT_ACK"}

Verdicts == {ACK, NAK} \X Seq(Bytes)

LEMMA FreshOK ==
  ASSUME settings \in Settings
  PROVE  FreshReader \in Readers /\ FreshReader.rxFlag /\ FreshReader.state = "IDLE"
         /\ FreshReader.buf = <<>> /\ FreshReader.cnt = 0 /\ FreshReader.lrc = 0
         /\ FreshReader.len = 0
<1>1. /\ MaxResend \in 0..(Counts-1) /\ 0 \in Bytes /\ <<>> \in Seq(Bytes) /\ Len(<<>>) = 0
      /\ BufferSize \in Nat /\ 0 \in Nat
  BY AuxAssumption DEF Bytes
<1>2. /\ FreshReader \in Ports /\ FreshReader.rxFlag /\ FreshReader.state = "IDLE"
      /\ FreshReader.buf = <<>> /\ FreshReader.cnt = 0 /\ FreshReader.lrc = 0
      /\ FreshReader.len = 0
  BY <1>1 DEF FreshReader, FreshPort, Ports, States
<1> QED BY <1>1, <1>2 DEF Readers, PortOK

\* The reader that a port is.
LEMMA ReaderOf ==
  ASSUME settings \in Settings, NEW p, PortOK(p)
  PROVE  /\ ~p.rxFlag \/ p.state = "IDLE" => Reader(p) = FreshReader
         /\ p.rxFlag /\ p.state # "IDLE" =>
              /\ Reader(p) = [FreshReader EXCEPT !.state = p.state, !.cnt = p.cnt,
                                                 !.lrc = p.lrc, !.buf = p.buf]
              /\ Reader(p).state = p.state /\ Reader(p).cnt = p.cnt
              /\ Reader(p).lrc = p.lrc /\ Reader(p).buf = p.buf
              /\ Reader(p).rxFlag /\ Reader(p).len = 0
         /\ p.state # "WAIT_ACK" => Reader(p) \in Readers
         /\ Reader(p).rxFlag
<1>1. FreshReader \in Readers /\ FreshReader \in Ports /\ FreshReader.rxFlag /\ FreshReader.len = 0
  BY FreshOK DEF Readers
<1>2. p \in Ports
  BY DEF PortOK
<1>3. CASE ~p.rxFlag
  <2>1. Restart(p).state = "IDLE"
    BY <1>2, <1>3 DEF Restart, Ports
  <2>2. Reader(p) = FreshReader
    BY <2>1 DEF Reader
  <2> QED BY <1>1, <1>3, <2>2
<1>4. CASE p.rxFlag /\ p.state = "IDLE"
  <2>1. Restart(p) = p
    BY <1>4 DEF Restart
  <2>2. Reader(p) = FreshReader
    BY <1>4, <2>1 DEF Reader
  <2> QED BY <1>1, <1>4, <2>2
<1>5. CASE p.rxFlag /\ p.state # "IDLE"
  <2>1. Restart(p) = p
    BY <1>5 DEF Restart
  <2> DEFINE r == [FreshReader EXCEPT !.state = p.state, !.cnt = p.cnt,
                                      !.lrc = p.lrc, !.buf = p.buf]
  <2>2. Reader(p) = r
    BY <1>5, <2>1 DEF Reader
  <2>3. /\ r \in Ports /\ r.state = p.state /\ r.cnt = p.cnt /\ r.lrc = p.lrc
        /\ r.buf = p.buf /\ r.rxFlag /\ r.len = 0
    BY <1>1, <1>2 DEF Ports
  <2> HIDE DEF r
  <2>4. p.state # "WAIT_ACK" => r \in Readers
    BY <2>3 DEF Readers, PortOK
  <2> QED BY <1>5, <2>2, <2>3, <2>4 DEF r
<1> QED BY <1>3, <1>4, <1>5

LEMMA ReadsType ==
  ASSUME settings \in Settings, NEW r \in Readers, NEW b \in Bytes
  PROVE  Reads(r, b) \in Readers /\ Reads(r, b).rxFlag /\ Verdict(r, b) \in Seq(Verdicts)
<1>1. PortOK(DataLinkRx(r, b)) /\ DataLinkRx(r, b).state # "WAIT_ACK"
  BY DataLinkRxOK DEF Readers
<1>2. r.buf \in Seq(Bytes) /\ <<>> \in Seq(Bytes)
  BY DEF Readers, Ports
<1>3. Good(r.buf) \in Verdicts /\ Bad \in Verdicts
  BY <1>2 DEF Good, Bad, Verdicts
<1>4. Verdict(r, b) \in Seq(Verdicts)
  BY <1>3 DEF Verdict
<1>5. Reader(DataLinkRx(r, b)) \in Readers /\ Reader(DataLinkRx(r, b)).rxFlag
  BY <1>1, ReaderOf
<1> QED BY <1>4, <1>5 DEF Reads

\* Sequences and their last elements.
LEMMA LastByte ==
  ASSUME NEW T, NEW n \in Nat, NEW s \in Seq(T), Len(s) = n + 1
  PROVE  \E front \in Seq(T), b \in T : s = Append(front, b) /\ Len(front) = n
<1> DEFINE front == SubSeq(s, 1, n)
           b == s[n + 1]
<1>1. front \in Seq(T) /\ Len(front) = n /\ \A i \in 1..n : front[i] = s[i]
  OBVIOUS
<1>2. b \in T
  OBVIOUS
<1> HIDE DEF front
<1>3. s = Append(front, b)
  BY <1>1
<1> QED BY <1>1, <1>2, <1>3

LEMMA CatAppend ==
  ASSUME NEW T, NEW s \in Seq(T), NEW t \in Seq(T), NEW b \in T
  PROVE  s \o t \in Seq(T) /\ s \o Append(t, b) = Append(s \o t, b)
OBVIOUS

LEMMA CatAssoc ==
  ASSUME NEW T, NEW s \in Seq(T), NEW t \in Seq(T), NEW u \in Seq(T)
  PROVE  (s \o t) \o u = s \o (t \o u) /\ t \o u \in Seq(T)
OBVIOUS

LEMMA HearingType ==
  ASSUME settings \in Settings, NEW r \in Readers
  PROVE  \A bytes \in Seq(Bytes) : After(r, bytes) \in Readers /\ Said(r, bytes) \in Seq(Verdicts)
<1> DEFINE P(bytes) == After(r, bytes) \in Readers /\ Said(r, bytes) \in Seq(Verdicts)
           S == {n \in Nat : \A bytes \in Seq(Bytes) : Len(bytes) = n => P(bytes)}
<1>1. 0 \in S
  <2> SUFFICES ASSUME NEW bytes \in Seq(Bytes), Len(bytes) = 0 PROVE P(bytes)
    OBVIOUS
  <2>1. bytes = <<>> /\ <<>> \in Seq(Verdicts)
    OBVIOUS
  <2> QED BY <2>1, HearingNone
<1>2. ASSUME NEW n \in S PROVE n + 1 \in S
  <2> SUFFICES ASSUME NEW bytes \in Seq(Bytes), Len(bytes) = n + 1 PROVE P(bytes)
    OBVIOUS
  <2>1. PICK front \in Seq(Bytes), b \in Bytes : bytes = Append(front, b) /\ Len(front) = n
    BY LastByte
  <2>2. P(front)
    BY <2>1
  <2>3. After(r, bytes) \in Readers /\ Verdict(After(r, front), b) \in Seq(Verdicts)
    BY <2>1, <2>2, HearingMore, ReadsType
  <2>4. Said(r, bytes) = Said(r, front) \o Verdict(After(r, front), b)
    BY <2>1, HearingMore
  <2> QED BY <2>2, <2>3, <2>4
<1>3. S = Nat
  <2>1. S \in SUBSET Nat
    OBVIOUS
  <2> HIDE DEF S
  <2> QED BY <1>1, <1>2, <2>1, Induction
<1> QED BY <1>3

\* What a reader says of a part it says first of the whole.
LEMMA SaidGrows ==
  ASSUME settings \in Settings, NEW r \in Readers, NEW u \in Seq(Bytes), NEW v \in Seq(Bytes)
  PROVE  \E t \in Seq(Verdicts) : Said(r, u \o v) = Said(r, u) \o t
<1> DEFINE P(w) == \E t \in Seq(Verdicts) : Said(r, u \o w) = Said(r, u) \o t
           S == {n \in Nat : \A w \in Seq(Bytes) : Len(w) = n => P(w)}
<1>0. Said(r, u) \in Seq(Verdicts)
  BY HearingType
<1> HIDE DEF P
<1>1. 0 \in S
  <2> SUFFICES ASSUME NEW w \in Seq(Bytes), Len(w) = 0 PROVE P(w)
    OBVIOUS
  <2>1. u \o w = u /\ <<>> \in Seq(Verdicts) /\ Said(r, u) \o <<>> = Said(r, u)
    BY <1>0
  <2> QED BY <2>1 DEF P
<1>2. ASSUME NEW n \in S PROVE n + 1 \in S
  <2> SUFFICES ASSUME NEW w \in Seq(Bytes), Len(w) = n + 1 PROVE P(w)
    OBVIOUS
  <2>0. n \in Nat /\ \A x \in Seq(Bytes) : Len(x) = n => P(x)
    OBVIOUS
  <2>1. PICK front \in Seq(Bytes), b \in Bytes : w = Append(front, b) /\ Len(front) = n
    BY <2>0, LastByte
  <2>2. PICK t \in Seq(Verdicts) : Said(r, u \o front) = Said(r, u) \o t
    BY <2>0, <2>1 DEF P
  <2> HIDE DEF S
  <2>3. u \o w = Append(u \o front, b) /\ u \o front \in Seq(Bytes)
    BY <2>1, CatAppend
  <2> DEFINE d == Verdict(After(r, u \o front), b)
  <2>4. Said(r, u \o w) = Said(r, u \o front) \o d
    <3> DEFINE x == u \o front
    <3>1. x \in Seq(Bytes) /\ u \o w = Append(x, b)
      BY <2>3
    <3> HIDE DEF x
    <3>2. Said(r, Append(x, b)) = Said(r, x) \o Verdict(After(r, x), b)
      BY <3>1, HearingMore
    <3> QED BY <3>1, <3>2 DEF x
  <2>5. After(r, u \o front) \in Readers
    BY <2>3, HearingType
  <2>6. d \in Seq(Verdicts)
    BY <2>5, ReadsType
  <2> HIDE DEF d
  <2>7. /\ t \o d \in Seq(Verdicts) /\ (Said(r, u) \o t) \o d = Said(r, u) \o (t \o d)
    <3> DEFINE x == Said(r, u)
    <3>1. x \in Seq(Verdicts)
      BY <1>0
    <3> HIDE DEF x
    <3>2. (x \o t) \o d = x \o (t \o d) /\ t \o d \in Seq(Verdicts)
      BY <2>6, <3>1, CatAssoc
    <3> QED BY <3>2 DEF x
  <2> QED BY <2>2, <2>4, <2>7 DEF P
<1>3. S = Nat
  <2>1. S \in SUBSET Nat
    OBVIOUS
  <2> HIDE DEF S
  <2> QED BY <1>1, <1>2, <2>1, Induction
<1>4. P(v)
  <2>1. Len(v) \in Nat
    OBVIOUS
  <2>2. Len(v) \in S
    BY <1>3, <2>1
  <2> QED BY <2>2
<1> QED BY <1>4 DEF P

\* Everything about packages and readers depends on the protocol alone.
LEMMA SameReads ==
  ASSUME mode' = mode
  PROVE  /\ \A p, b : Reads(p, b)' = Reads(p, b) /\ Verdict(p, b)' = Verdict(p, b)
         /\ \A p : Reader(p)' = Reader(p)
         /\ \A m : Package(m)' = Package(m)
         /\ LenStates' = LenStates
<1>0. LenStates' = LenStates
  BY DEF LenStates
<1>1. \A p, b : RxIdle(p, b)' = RxIdle(p, b)
  BY DEF RxIdle
<1>2. \A p, b : RxLen(p, b)' = RxLen(p, b)
  BY <1>0 DEF RxLen
<1>3. \A p, b : RxData(p, b)' = RxData(p, b)
  BY DEF RxData
<1>4. \A p, b : RxLrc(p, b)' = RxLrc(p, b)
  BY DEF RxLrc
<1>5. \A p, b : DataLinkRx(p, b)' = DataLinkRx(p, b)
  BY <1>0, <1>1, <1>2, <1>3, <1>4 DEF DataLinkRx
<1>6. \A p : Reader(p)' = Reader(p)
  BY DEF Reader
<1>7. \A p, b : Verdict(p, b)' = Verdict(p, b)
  BY DEF Verdict
<1>8. \A p, b : Reads(p, b)' = Reads(p, b)
  BY <1>5, <1>6 DEF Reads
<1>9. \A m : Package(m)' = Package(m)
  <2>1. \A n : LenField(n)' = LenField(n)
    BY <1>0 DEF LenField
  <2> QED BY <2>1 DEF Package
<1> QED BY <1>0, <1>6, <1>7, <1>8, <1>9

LEMMA SameHearing ==
  ASSUME mode' = mode
  PROVE  \A r, bytes : Hearing(r, bytes)' = Hearing(r, bytes)
<1> TAKE r, bytes
<1>1. \A p, b : Reads(p, b)' = Reads(p, b) /\ Verdict(p, b)' = Verdict(p, b)
  BY SameReads
<1>2. \A h : IsHearing(h, r, bytes)' = IsHearing(h, r, bytes)
  BY <1>1 DEF IsHearing
<1>3. Hearing(r, bytes) = (CHOOSE h : IsHearing(h, r, bytes))[Len(bytes)]
  BY Zenon DEF Hearing, IsHearing
<1>4. Hearing(r, bytes)' = (CHOOSE h : IsHearing(h, r, bytes)')[Len(bytes)]
  BY Zenon DEF Hearing, IsHearing
<1>5. (CHOOSE h : IsHearing(h, r, bytes)') = (CHOOSE h : IsHearing(h, r, bytes))
  BY <1>2, Zenon
<1> QED BY <1>3, <1>4, <1>5

\* Two ports that take a byte alike: the one that has just been polled, and its reader.
Alike(p, q) ==
  /\ p \in Ports /\ q \in Ports
  /\ p.state = q.state /\ p.buf = q.buf /\ p.rxFlag /\ q.rxFlag /\ p.len = 0 /\ q.len = 0
  /\ p.state # "IDLE" => p.cnt = q.cnt /\ p.lrc = q.lrc

\* Only a port in the middle of a package holds bytes of it.
BufOK(p) ==
  p.rxFlag =>
    /\ p.state \notin {"DATA", "LRC"} => p.buf = <<>>
    /\ p.state = "LRC" => p.buf # <<>>

LEMMA SameReader ==
  ASSUME NEW p, NEW q, Alike(p, q)
  PROVE  Reader(p) = Reader(q)
<1>1. Restart(p) = p /\ Restart(q) = q
  BY DEF Restart, Alike
<1>2. CASE p.state = "IDLE"
  BY <1>1, <1>2 DEF Reader, Alike
<1>3. CASE p.state # "IDLE"
  BY <1>1, <1>3 DEF Reader, Alike
<1> QED BY <1>2, <1>3

LEMMA IdleReader ==
  ASSUME NEW p \in Ports, ~p.rxFlag \/ p.state = "IDLE"
  PROVE  Reader(p) = FreshReader
<1>1. Restart(p).state = "IDLE"
  BY DEF Restart, Ports
<1> QED BY <1>1 DEF Reader

LEMMA PolledAlike ==
  ASSUME settings \in Settings, NEW p, PortOK(p), p.len = 0, BufOK(p), NEW f \in Bytes
  PROVE  LET q == [Restart(p) EXCEPT !.first = f]
         IN /\ Alike(q, Reader(p)) /\ PortOK(q) /\ BufOK(q) /\ q.len = 0 /\ q.tx = p.tx
            /\ q.state \in {p.state, "IDLE"}
<1> DEFINE q == [Restart(p) EXCEPT !.first = f]
<1>0. /\ PortOK(Restart(p)) /\ Restart(p).tx = p.tx /\ Restart(p).rxFlag
      /\ Restart(p).len = 0 /\ Restart(p).state \in {p.state, "IDLE"}
  BY RestartOK
<1>1. /\ q \in Ports /\ q.state = Restart(p).state /\ q.buf = Restart(p).buf
      /\ q.rxFlag = Restart(p).rxFlag /\ q.len = Restart(p).len /\ q.cnt = Restart(p).cnt
      /\ q.lrc = Restart(p).lrc /\ q.tx = Restart(p).tx
  BY <1>0 DEF PortOK, Ports
<1>2. PortOK(q)
  BY <1>0, <1>1 DEF PortOK
<1>3. p \in Ports
  BY DEF PortOK
<1>4. FreshReader \in Ports /\ FreshReader.rxFlag /\ FreshReader.state = "IDLE"
      /\ FreshReader.buf = <<>> /\ FreshReader.len = 0
  BY FreshOK DEF Readers
<1> HIDE DEF q
<1>5. CASE ~p.rxFlag
  <2>1. Restart(p).state = "IDLE" /\ Restart(p).buf = <<>>
    BY <1>3, <1>5 DEF Restart, Ports
  <2>2. Reader(p) = FreshReader
    BY <1>3, <1>5, IdleReader
  <2> QED BY <1>0, <1>1, <1>2, <1>4, <2>1, <2>2 DEF Alike, BufOK, q
<1>6. CASE p.rxFlag /\ p.state = "IDLE"
  <2>1. Restart(p) = p /\ p.buf = <<>>
    BY <1>6 DEF Restart, BufOK
  <2>2. Reader(p) = FreshReader
    BY <1>3, <1>6, IdleReader
  <2> QED BY <1>0, <1>1, <1>2, <1>4, <1>6, <2>1, <2>2 DEF Alike, BufOK, q
<1>7. CASE p.rxFlag /\ p.state # "IDLE"
  <2>1. Restart(p) = p
    BY <1>7 DEF Restart
  <2>2. /\ Reader(p) = [FreshReader EXCEPT !.state = p.state, !.cnt = p.cnt,
                                           !.lrc = p.lrc, !.buf = p.buf]
        /\ Reader(p).state = p.state /\ Reader(p).cnt = p.cnt
        /\ Reader(p).lrc = p.lrc /\ Reader(p).buf = p.buf
        /\ Reader(p).rxFlag /\ Reader(p).len = 0
    BY <1>7, ReaderOf
  <2>3. Reader(p) \in Ports
    BY <1>3, <1>4, <2>2, ZenonT(30) DEF Ports
  <2>4. BufOK(q)
    BY <1>1, <2>1 DEF BufOK
  <2> QED BY <1>0, <1>1, <1>2, <2>1, <2>2, <2>3, <2>4 DEF Alike, q
<1> QED BY <1>5, <1>6, <1>7 DEF q

\* What they make of it. A verdict completes the package or refuses it, and the receiver
\* starts again.
LEMMA ReadsAlike ==
  ASSUME settings \in Settings, mode # "STX", NEW p, NEW q, Alike(p, q), BufOK(p),
         p.state # "WAIT_ACK", NEW b \in Bytes
  PROVE  /\ Reader(DataLinkRx(p, b)) = Reader(DataLinkRx(q, b))
         /\ BufOK(DataLinkRx(p, b))
         /\ Verdict(p, b) = Verdict(q, b)
<1> DEFINE x == DataLinkRx(p, b)
           y == DataLinkRx(q, b)
<1>0. /\ p \in Ports /\ q \in Ports /\ p.state = q.state /\ p.buf = q.buf
      /\ p.rxFlag /\ q.rxFlag /\ p.len = 0 /\ q.len = 0
      /\ TooLong(p) <=> TooLong(q)
  BY DEF Alike, TooLong
<1>8. ToSet(LenStates) \subseteq {"LEN_L", "LEN_L2", "LEN_H", "LEN_H2"}
  BY SettingsFacts DEF ToSet
<1>1. Verdict(p, b) = Verdict(q, b)
  BY DEF Verdict, AtLrc, Alike, TooLong
<1>2. CASE TooLong(p)
  <2>1. x = Discard(p) /\ y = Discard(q)
    BY <1>0, <1>2 DEF DataLinkRx
  <2>2. x \in Ports /\ y \in Ports /\ ~x.rxFlag /\ ~y.rxFlag
    BY <1>0, <2>1, ZenonT(30) DEF Discard, Ports, States
  <2> HIDE DEF x, y
  <2>3. Reader(x) = Reader(y) /\ BufOK(x)
    BY <2>2, IdleReader DEF BufOK
  <2> QED BY <1>1, <2>3 DEF x, y
<1>3. CASE ~TooLong(p) /\ p.state = "IDLE"
  <2>1. x = RxIdle(p, b) /\ y = RxIdle(q, b)
    BY <1>0, <1>3, <1>8 DEF DataLinkRx
  <2>2. CASE b = SOH
    <3> DEFINE Start(r) == [r EXCEPT !.len = 0, !.cnt = 0, !.lrc = 0, !.buf = <<>>, !.state = "LEN_L"]
    <3>1. x = Start(p) /\ y = Start(q)
      BY <2>1, <2>2 DEF RxIdle
    <3>2. 0 \in Bytes /\ <<>> \in Seq(Bytes)
      BY DEF Bytes
    <3>4. ASSUME NEW r \in Ports, r.rxFlag
          PROVE  /\ Start(r) \in Ports /\ Start(r).state = "LEN_L" /\ Start(r).buf = <<>>
                 /\ Start(r).cnt = 0 /\ Start(r).lrc = 0 /\ Start(r).rxFlag /\ Start(r).len = 0
      BY <3>2, <3>4 DEF Ports, States
    <3> HIDE DEF Start
    <3>3. /\ x \in Ports /\ x.state = "LEN_L" /\ x.buf = <<>> /\ x.cnt = 0 /\ x.lrc = 0 /\ x.rxFlag /\ x.len = 0
          /\ y \in Ports /\ y.state = "LEN_L" /\ y.buf = <<>> /\ y.cnt = 0 /\ y.lrc = 0 /\ y.rxFlag /\ y.len = 0
      BY <1>0, <3>1, <3>4
    <3> HIDE DEF x, y
    <3>5. Alike(x, y) /\ BufOK(x)
      BY <3>3 DEF Alike, BufOK
    <3> QED BY <1>1, <3>5, SameReader DEF x, y
  <2>3. CASE b # SOH
    <3>1. x = p /\ y = q
      BY <2>1, <2>3 DEF RxIdle
    <3> QED BY <1>1, <3>1, SameReader
  <2> QED BY <2>2, <2>3
<1>4. CASE ~TooLong(p) /\ p.state \in ToSet(LenStates)
  <2>0. p.state \notin {"IDLE", "DATA", "LRC", "WAIT_ACK"}
    BY <1>4, <1>8
  <2>1. x = RxLen(p, b) /\ y = RxLen(q, b)
    BY <1>0, <1>4, <2>0 DEF DataLinkRx
  <2> DEFINE k == CHOOSE j \in 1..Len(LenStates) : LenStates[j] = p.state
             n == p.cnt + b * 256^(k-1)
             next == IF k < Len(LenStates) THEN LenStates[k+1]
                     ELSE IF n # 0 THEN "DATA" ELSE "IDLE"
             c == Xor(p.lrc, b)
  <2>2. p.cnt = q.cnt /\ p.lrc = q.lrc /\ p.buf = <<>>
    BY <1>0, <2>0 DEF Alike, BufOK
  <2>3. /\ x = [p EXCEPT !.cnt = n, !.lrc = c, !.state = next]
        /\ y = [q EXCEPT !.cnt = n, !.lrc = c, !.state = next]
    <3>1. x = [p EXCEPT !.cnt = n, !.lrc = Xor(p.lrc, b), !.state = next]
      BY <1>0, <2>1 DEF RxLen, k, Ports
    <3>2. y = [q EXCEPT !.cnt = n, !.lrc = Xor(q.lrc, b), !.state = next]
      BY <1>0, <2>1, <2>2 DEF RxLen, k, Ports
    <3> QED BY <2>2, <3>1, <3>2
  <2>4. n \in Nat /\ c \in Bytes /\ next \in {"LEN_L", "LEN_L2", "LEN_H", "LEN_H2", "DATA", "IDLE"}
    <3>1. k \in 1..Len(LenStates)
      <4>1. \E j \in 1..Len(LenStates) : LenStates[j] = p.state
        BY <1>4 DEF ToSet
      <4> QED BY <4>1
    <3>2. c \in Bytes
      BY XorType
    <3> HIDE DEF k, c
    <3>3. k \in 1..4
      <4>1. PICK m \in 0..4 : m = Len(LenStates)
        BY SettingsFacts
      <4>2. k \in 1..m
        BY <3>1, <4>1
      <4> QED BY <4>2
    <3>4. n \in Nat
      <4>1. 256^(k-1) \in Nat
        <5>1. CASE k = 1
          BY <5>1, Powers
        <5>2. CASE k = 2
          BY <5>2, Powers
        <5>3. CASE k = 3
          BY <5>3, Powers
        <5>4. CASE k = 4
          BY <5>4, Powers
        <5> QED BY <3>3, <5>1, <5>2, <5>3, <5>4
      <4>2. p.cnt \in Nat /\ b \in Nat
        BY <1>0 DEF Ports, Bytes
      <4>3. \A u, v \in Nat : u * v \in Nat
        OBVIOUS
      <4> QED BY <4>1, <4>2, <4>3
    <3>5. k < Len(LenStates) => k + 1 \in 1..Len(LenStates)
      BY <3>1, SettingsFacts
    <3>6. k < Len(LenStates) => LenStates[k+1] \in {"LEN_L", "LEN_L2", "LEN_H", "LEN_H2"}
      BY <3>5, SettingsFacts
    <3> QED BY <3>2, <3>4, <3>6
  <2> HIDE DEF n, c, next, x, y, k
  <2>5. /\ x \in Ports /\ x.state = next /\ x.buf = p.buf /\ x.cnt = n /\ x.lrc = c /\ x.rxFlag /\ x.len = 0
        /\ y \in Ports /\ y.state = next /\ y.buf = p.buf /\ y.cnt = n /\ y.lrc = c /\ y.rxFlag /\ y.len = 0
    BY <1>0, <2>3, <2>4 DEF Ports, States
  <2>6. Alike(x, y) /\ BufOK(x)
    BY <2>2, <2>4, <2>5 DEF Alike, BufOK
  <2> QED BY <1>1, <2>6, SameReader DEF x, y
<1>5. CASE ~TooLong(p) /\ p.state = "DATA"
  <2>1. x = RxData(p, b) /\ y = RxData(q, b)
    BY <1>0, <1>5, <1>8 DEF DataLinkRx
  <2> DEFINE next == IF Len(p.buf) + 1 = p.cnt THEN "LRC" ELSE "DATA"
             c == Xor(p.lrc, b)
             more == Append(p.buf, b)
  <2>2. p.cnt = q.cnt /\ p.lrc = q.lrc
    BY <1>0, <1>5 DEF Alike
  <2>3. /\ x = [p EXCEPT !.lrc = c, !.buf = more, !.state = next]
        /\ y = [q EXCEPT !.lrc = c, !.buf = more, !.state = next]
    BY <1>0, <2>1, <2>2, Zenon DEF RxData
  <2>4. c \in Bytes /\ more \in Seq(Bytes) /\ more # <<>> /\ next \in {"LRC", "DATA"}
    <3>1. c \in Bytes
      BY XorType
    <3>2. more \in Seq(Bytes) /\ more # <<>>
      <4>1. p.buf \in Seq(Bytes)
        BY <1>0 DEF Ports
      <4> QED BY <4>1
    <3> QED BY <3>1, <3>2
  <2> HIDE DEF c, next, more, x, y
  <2>5. /\ x \in Ports /\ x.state = next /\ x.buf = more /\ x.cnt = p.cnt /\ x.lrc = c /\ x.rxFlag /\ x.len = 0
        /\ y \in Ports /\ y.state = next /\ y.buf = more /\ y.cnt = p.cnt /\ y.lrc = c /\ y.rxFlag /\ y.len = 0
    BY <1>0, <2>2, <2>3, <2>4 DEF Ports, States
  <2>6. Alike(x, y) /\ BufOK(x)
    BY <2>4, <2>5 DEF Alike, BufOK
  <2> QED BY <1>1, <2>6, SameReader DEF x, y
<1>6. CASE ~TooLong(p) /\ p.state = "LRC"
  <2>1. x = RxLrc(p, b) /\ y = RxLrc(q, b)
    BY <1>0, <1>6, <1>8 DEF DataLinkRx
  <2>2. ASSUME NEW z \in Ports
        PROVE  RxLrc(z, b) \in Ports /\ ~RxLrc(z, b).rxFlag
    <3>1. [z EXCEPT !.len = Len(z.buf)] \in Ports
      BY DEF Ports
    <3>2. \A w \in Ports : RxEnd(w) \in Ports /\ ~RxEnd(w).rxFlag
      BY DEF RxEnd, Ports, States
    <3>3. RxLrc(z, b) = RxEnd([z EXCEPT !.len = Len(z.buf)]) \/ RxLrc(z, b) = RxEnd(z)
      BY DEF RxLrc
    <3> QED BY <3>1, <3>2, <3>3
  <2>3. x \in Ports /\ y \in Ports /\ ~x.rxFlag /\ ~y.rxFlag
    BY <1>0, <2>1, <2>2
  <2> HIDE DEF x, y
  <2>4. Reader(x) = Reader(y) /\ BufOK(x)
    BY <2>3, IdleReader DEF BufOK
  <2> QED BY <1>1, <2>4 DEF x, y
<1>7. CASE ~TooLong(p) /\ p.state \notin {"IDLE", "DATA", "LRC"} \cup ToSet(LenStates)
  <2>1. x = p /\ y = q
    BY <1>0, <1>7 DEF DataLinkRx
  <2> QED BY <1>1, <2>1, SameReader
<1> QED BY <1>2, <1>3, <1>4, <1>5, <1>6, <1>7

\* The last byte of a package, and no other, brings an answer.
LEMMA VerdictOf ==
  ASSUME settings \in Settings, mode # "STX", NEW p, PortOK(p), p.len = 0, p.rxFlag, BufOK(p),
         NEW b \in Bytes
  PROVE  \/ /\ Verdict(p, b) = <<>> /\ ~AtLrc(p)
            /\ DataLinkRx(p, b).len = 0 /\ Answer(p, b) = <<>>
         \/ /\ Verdict(p, b) = <<Bad>> /\ AtLrc(p)
            /\ DataLinkRx(p, b).len = 0 /\ Answer(p, b) = <<NAK>>
         \/ /\ Verdict(p, b) = <<Good(p.buf)>> /\ AtLrc(p)
            /\ DataLinkRx(p, b).len > 0 /\ DataLinkRx(p, b).buf = p.buf
            /\ Answer(p, b) = IF ackMode THEN <<>> ELSE Repeat(ACK, Acks)
<1>0. p \in Ports /\ p.buf \in Seq(Bytes)
  BY DEF PortOK, Ports
<1>8. ToSet(LenStates) \subseteq {"LEN_L", "LEN_L2", "LEN_H", "LEN_H2"}
  BY SettingsFacts DEF ToSet
<1>1. CASE ~AtLrc(p)
  <2>1. ~(DataLinkRx(p, b).len > 0) /\ DataLinkRx(p, b).len \in Nat
    BY <1>1, DataLinkRxOK DEF PortOK, Ports
  <2>2. DataLinkRx(p, b).len = 0
    BY <2>1
  <2> QED BY <1>1, <2>2 DEF Verdict, Answer
<1>2. CASE AtLrc(p)
  <2>1. DataLinkRx(p, b) = RxLrc(p, b) /\ p.buf # <<>>
    BY <1>2, <1>8 DEF DataLinkRx, AtLrc, BufOK
  <2> DEFINE q == [p EXCEPT !.len = Len(p.buf)]
  <2>2. Len(p.buf) > 0
    BY <1>0, <2>1
  <2>3. /\ RxEnd(q).len = Len(p.buf) /\ RxEnd(q).buf = p.buf /\ RxEnd(p).len = 0
    BY <1>0 DEF RxEnd, Ports
  <2>4. RxLrc(p, b) = IF b = p.lrc THEN RxEnd(q) ELSE RxEnd(p)
    BY DEF RxLrc
  <2> HIDE DEF q
  <2>5. CASE b = p.lrc
    <3>1. Verdict(p, b) = <<Good(p.buf)>>
      BY <1>2, <2>5 DEF Verdict
    <3>2. Answer(p, b) = IF ackMode THEN <<>> ELSE Repeat(ACK, Acks)
      BY <1>2, <2>5 DEF Answer
    <3> QED BY <1>2, <2>1, <2>2, <2>3, <2>4, <2>5, <3>1, <3>2
  <2>6. CASE b # p.lrc
    <3>1. Verdict(p, b) = <<Bad>> /\ Answer(p, b) = <<NAK>>
      BY <1>2, <2>6 DEF Verdict, Answer
    <3> QED BY <1>2, <2>1, <2>3, <2>4, <2>6, <3>1
  <2> QED BY <2>5, <2>6
<1> QED BY <1>1, <1>2

----------------------------------------------------------------------------
\* The receiver reads back what the sender has built.

\* The checksum grows by a byte.
LEMMA XorAllMore ==
  ASSUME NEW s \in Seq(Bytes), NEW b \in Bytes
  PROVE  XorAll(Append(s, b)) = Xor(XorAll(s), b) /\ XorAll(<<>>) = 0
<1> DEFINE n == Len(s)
           t == Append(s, b)
<1>0. /\ n \in Nat /\ Len(t) = n + 1 /\ t[n + 1] = b /\ t \in Seq(Bytes)
      /\ \A k \in 1..n : t[k] = s[k]
  OBVIOUS
<1>1. ASSUME NEW x, Len(x) \in Nat
      PROVE  \E f : /\ XorAll(x) = f[Len(x)] /\ f[0] = 0
                    /\ \A k \in 1..Len(x) : f[k] = Xor(f[k-1], x[k])
  <2> DEFINE l == Len(x)
             G == [z \in Nat \X Bytes |-> Xor(z[2], x[z[1]])]
             sum == CHOOSE f : IsSum(f, x)
  <2>1. G \in [Nat \X Bytes -> Bytes]
    BY XorType
  <2>2. \A k \in Nat, v \in Bytes : G[<<k, v>>] = Xor(v, x[k])
    OBVIOUS
  <2>3. 0 \in Bytes /\ l \in Nat
    BY <1>1 DEF Bytes
  <2> HIDE DEF G, l
  <2>4. PICK f : Follows(f, Bytes, 0, G, l)
    BY <2>1, <2>3, Recursion
  <2>5. IsSum(f, x)
    <3>1. \A k \in 0..l : f[k] = IF k = 0 THEN 0 ELSE Xor(f[k-1], x[k])
      <4> SUFFICES ASSUME NEW k \in 1..l PROVE f[k] = Xor(f[k-1], x[k])
        BY <2>3, <2>4 DEF Follows
      <4>1. f[k-1] \in Bytes /\ k \in Nat
        BY <2>3, <2>4 DEF Follows
      <4> QED BY <2>2, <2>4, <4>1 DEF Follows
    <3>2. f = [k \in 0..l |-> f[k]]
      BY <2>4 DEF Follows
    <3> QED BY <3>1, <3>2, Zenon DEF IsSum, l
  <2>6. IsSum(sum, x)
    BY <2>5, Zenon
  <2>7. XorAll(x) = sum[l]
    BY Zenon DEF XorAll, IsSum, l
  <2> HIDE DEF sum
  <2>8. sum[0] = 0 /\ \A k \in 1..l : sum[k] = Xor(sum[k-1], x[k])
    BY <2>3, <2>6 DEF IsSum, l
  <2> QED BY <2>7, <2>8 DEF l
<1>2. PICK f : XorAll(s) = f[n] /\ f[0] = 0 /\ \A k \in 1..n : f[k] = Xor(f[k-1], s[k])
  BY <1>0, <1>1
<1>3. PICK g : XorAll(t) = g[n + 1] /\ g[0] = 0 /\ \A k \in 1..(n + 1) : g[k] = Xor(g[k-1], t[k])
  <2>1. Len(t) \in Nat
    BY <1>0
  <2> HIDE DEF t
  <2>2. PICK g : XorAll(t) = g[Len(t)] /\ g[0] = 0 /\ \A k \in 1..Len(t) : g[k] = Xor(g[k-1], t[k])
    BY <1>1, <2>1
  <2> QED BY <1>0, <2>2
<1>4. XorAll(<<>>) = 0
  <2>1. Len(<<>>) = 0
    OBVIOUS
  <2> QED BY <1>1, <2>1
<1> HIDE DEF n, t
<1>5. 0..n \subseteq {k \in 0..n : g[k] = f[k]}
  <2> DEFINE S == {k \in 0..n : g[k] = f[k]}
  <2>1. 0 \in S
    BY <1>0, <1>2, <1>3
  <2>2. ASSUME NEW k \in 0..(n - 1), k \in S PROVE k + 1 \in S
    <3>1. k + 1 \in 1..n /\ k + 1 \in 1..(n + 1) /\ (k + 1) - 1 = k
      BY <1>0
    <3> QED BY <1>0, <1>2, <1>3, <2>2, <3>1
  <2> HIDE DEF S
  <2>3. 0..n \subseteq S
    BY <1>0, <2>1, <2>2, BoundedInduction
  <2> QED BY <2>3 DEF S
<1>6. g[n + 1] = Xor(f[n], b)
  <2>1. n + 1 \in 1..(n + 1) /\ (n + 1) - 1 = n /\ n \in 0..n
    BY <1>0
  <2>2. g[n + 1] = Xor(g[n], t[n + 1]) /\ g[n] = f[n]
    BY <1>3, <1>5, <2>1
  <2> QED BY <1>0, <2>2
<1> QED BY <1>2, <1>3, <1>4, <1>6 DEF t

\* The number in the first k length bytes, and one more of them.
LEMMA Digits ==
  ASSUME NEW n \in Nat, NEW k \in 1..4
  PROVE  (n % 256^(k-1)) + ((n \div 256^(k-1)) % 256) * 256^(k-1) = n % 256^k
<1>1. 256^4 = 4294967296
  OBVIOUS
<1>2. CASE k = 1
  <2>1. (n % 1) + ((n \div 1) % 256) * 1 = n % 256
    OBVIOUS
  <2> QED BY <1>2, <2>1, Powers
<1>3. CASE k = 2
  <2>1. (n % 256) + ((n \div 256) % 256) * 256 = n % 65536
    OBVIOUS
  <2> QED BY <1>3, <2>1, Powers
<1>4. CASE k = 3
  <2>1. (n % 65536) + ((n \div 65536) % 256) * 65536 = n % 16777216
    OBVIOUS
  <2> QED BY <1>4, <2>1, Powers
<1>5. CASE k = 4
  <2>1. (n % 16777216) + ((n \div 16777216) % 256) * 16777216 = n % 4294967296
    OBVIOUS
  <2> QED BY <1>1, <1>5, <2>1, Powers
<1> QED BY <1>2, <1>3, <1>4, <1>5

LEMMA TopDigit ==
  ASSUME NEW n \in Nat, NEW k \in 1..4, n \div 256^(k-1) < 256
  PROVE  n < 256^k
<1>1. 256^4 = 4294967296
  OBVIOUS
<1>2. CASE k = 1
  <2>1. n \div 1 < 256 => n < 256
    OBVIOUS
  <2> QED BY <1>2, <2>1, Powers
<1>3. CASE k = 2
  <2>1. n \div 256 < 256 => n < 65536
    OBVIOUS
  <2> QED BY <1>3, <2>1, Powers
<1>4. CASE k = 3
  <2>1. n \div 65536 < 256 => n < 16777216
    OBVIOUS
  <2> QED BY <1>4, <2>1, Powers
<1>5. CASE k = 4
  <2>1. n \div 16777216 < 256 => n < 4294967296
    OBVIOUS
  <2> QED BY <1>1, <1>5, <2>1, Powers
<1> QED BY <1>2, <1>3, <1>4, <1>5

\* What the checksum of a package covers.
Body(m) == LenField(Len(m)) \o m

LEMMA LenStatesFacts ==
  ASSUME settings \in Settings, mode # "STX"
  PROVE  /\ Len(LenStates) \in 1..4 /\ LenStates[1] = "LEN_L"
         /\ \A j \in 1..Len(LenStates) :
              /\ LenStates[j] \in {"LEN_L", "LEN_L2", "LEN_H", "LEN_H2"}
              /\ \A i \in 1..Len(LenStates) : LenStates[i] = LenStates[j] => i = j
<1>1. CASE mode = "DLL"
  BY <1>1 DEF LenStates
<1>2. CASE mode = "SOH"
  <2>1. LenStates = <<"LEN_L", "LEN_H">>
    BY <1>2 DEF LenStates
  <2> QED BY <2>1
<1>3. CASE mode = "SOH4"
  <2>1. LenStates = <<"LEN_L", "LEN_L2", "LEN_H", "LEN_H2">>
    BY <1>3 DEF LenStates
  <2>2. Len(LenStates) = 4
    BY <2>1
  <2>3. /\ LenStates[1] = "LEN_L" /\ LenStates[2] = "LEN_L2"
        /\ LenStates[3] = "LEN_H" /\ LenStates[4] = "LEN_H2"
    BY <2>1
  <2>4. ASSUME NEW j \in 1..4 PROVE j = 1 \/ j = 2 \/ j = 3 \/ j = 4
    OBVIOUS
  <2> QED BY <2>2, <2>3, <2>4
<1> QED BY SettingsFacts, <1>1, <1>2, <1>3

LEMMA PowersNat ==
  ASSUME NEW k \in 1..4
  PROVE  256^(k-1) \in Nat \ {0} /\ 256^k \in Nat \ {0}
<1>0. 256^4 \in Nat \ {0}
  BY SMT
<1>1. CASE k = 1
  BY <1>1, Powers, SMT
<1>2. CASE k = 2
  BY <1>2, Powers, SMT
<1>3. CASE k = 3
  BY <1>3, Powers, SMT
<1>4. CASE k = 4
  BY <1>0, <1>4, Powers, SMT
<1> QED BY <1>1, <1>2, <1>3, <1>4

LEMMA BodyFacts ==
  ASSUME settings \in Settings, mode # "STX", NEW m \in Seq(Bytes)
  PROVE  /\ Body(m) \in Seq(Bytes) /\ Len(Body(m)) = Len(LenStates) + Len(m)
         /\ \A k \in 1..Len(LenStates) : Body(m)[k] = (Len(m) \div 256^(k-1)) % 256
         /\ \A k \in 1..Len(m) : Body(m)[Len(LenStates) + k] = m[k]
<1> DEFINE l == Len(LenStates)
           f == LenField(Len(m))
<1>0. l \in 1..4 /\ Len(m) \in Nat
  BY LenStatesFacts
<1>1. f = [k \in 1..l |-> (Len(m) \div 256^(k-1)) % 256]
  BY DEF LenField
<1> HIDE DEF l
<1>2. \A k \in 1..l : (Len(m) \div 256^(k-1)) % 256 \in Bytes
  <2> SUFFICES ASSUME NEW k \in 1..l PROVE (Len(m) \div 256^(k-1)) % 256 \in Bytes
    OBVIOUS
  <2>1. k \in 1..4
    BY <1>0
  <2>2. 256^(k-1) \in Nat \ {0}
    BY <2>1, PowersNat
  <2>3. \A n \in Nat, d \in Nat \ {0} : (n \div d) % 256 \in Bytes
    BY DEF Bytes
  <2> QED BY <1>0, <2>2, <2>3
<1>3. f \in Seq(Bytes) /\ Len(f) = l /\ \A k \in 1..l : f[k] = (Len(m) \div 256^(k-1)) % 256
  BY <1>0, <1>1, <1>2
<1>4. Body(m) = f \o m
  BY DEF Body
<1> HIDE DEF f
<1>5. /\ f \o m \in Seq(Bytes) /\ Len(f \o m) = l + Len(m)
      /\ \A k \in 1..l : (f \o m)[k] = f[k]
      /\ \A k \in 1..Len(m) : (f \o m)[l + k] = m[k]
  BY <1>0, <1>3
<1> QED BY <1>3, <1>4, <1>5 DEF l

\* r has read the SOH and the first k bytes of the body of m.
HalfRead(r, m, k) ==
  /\ r \in Readers /\ r.rxFlag
  /\ r.lrc = XorAll(SubSeq(Body(m), 1, k))
  /\ k < Len(LenStates) =>
       r.state = LenStates[k + 1] /\ r.cnt = Len(m) % 256^k /\ r.buf = <<>>
  /\ k >= Len(LenStates) =>
       /\ r.cnt = Len(m) /\ r.buf = SubSeq(m, 1, k - Len(LenStates))
       /\ r.state = IF k = Len(LenStates) + Len(m) THEN "LRC" ELSE "DATA"

LEMMA ReadLength ==
  ASSUME settings \in Settings, mode # "STX", NEW m \in Seq(Bytes) \ {<<>>},
         Len(m) < 256^Len(LenStates), NEW k \in 0..(Len(LenStates) - 1), NEW r, HalfRead(r, m, k)
  PROVE  LET b == Body(m)[k + 1]
         IN Verdict(r, b) = <<>> /\ HalfRead(Reads(r, b), m, k + 1)
<1> DEFINE l == Len(LenStates)
           b == Body(m)[k + 1]
           x == RxLen(r, b)
           n == r.cnt + b * 256^k
           c == Xor(r.lrc, b)
           next == IF k + 1 < l THEN LenStates[k + 2] ELSE "DATA"
<1>0. /\ l \in 1..4 /\ k \in 0..3 /\ k + 1 \in 1..l /\ k + 1 \in 1..4 /\ (k + 1) - 1 = k
      /\ Len(m) \in Nat \ {0} /\ Len(m) < 256^l
  BY LenStatesFacts
<1>1. /\ r \in Ports /\ PortOK(r) /\ r.len = 0 /\ r.rxFlag /\ r.state = LenStates[k + 1]
      /\ r.cnt = Len(m) % 256^k /\ r.buf = <<>> /\ r.lrc = XorAll(SubSeq(Body(m), 1, k))
  BY <1>0 DEF HalfRead, Readers
<1>2. /\ b = (Len(m) \div 256^k) % 256 /\ b \in Bytes
      /\ SubSeq(Body(m), 1, k) \in Seq(Bytes)
      /\ SubSeq(Body(m), 1, k + 1) = Append(SubSeq(Body(m), 1, k), b)
  <2> DEFINE y == Body(m)
  <2>1. /\ y \in Seq(Bytes) /\ Len(y) = l + Len(m)
        /\ y[k + 1] = (Len(m) \div 256^((k + 1)-1)) % 256
    BY <1>0, BodyFacts
  <2> HIDE DEF y, l
  <2>2. k + 1 \in 1..Len(y)
    BY <1>0, <2>1
  <2>3. /\ y[k + 1] \in Bytes /\ SubSeq(y, 1, k) \in Seq(Bytes)
        /\ SubSeq(y, 1, k + 1) = Append(SubSeq(y, 1, k), y[k + 1])
    BY <1>0, <2>1, <2>2
  <2> QED BY <1>0, <2>1, <2>3 DEF y
<1> HIDE DEF b, l
<1>3. n = Len(m) % 256^(k + 1)
  <2>1. (Len(m) % 256^((k + 1)-1)) + ((Len(m) \div 256^((k + 1)-1)) % 256) * 256^((k + 1)-1)
          = Len(m) % 256^(k + 1)
    <3>1. Len(m) \in Nat /\ k + 1 \in 1..4
      BY <1>0
    <3> DEFINE i == Len(m)
               j == k + 1
    <3>2. i \in Nat /\ j \in 1..4
      BY <3>1
    <3> HIDE DEF i, j
    <3>3. (i % 256^(j-1)) + ((i \div 256^(j-1)) % 256) * 256^(j-1) = i % 256^j
      BY <3>2, Digits, ZenonT(30)
    <3> QED BY <3>3 DEF i, j
  <2> QED BY <1>0, <1>1, <1>2, <2>1
<1>4. n \in Nat /\ (k + 1 = l => n = Len(m))
  <2>1. 256^(k + 1) \in Nat \ {0}
    BY <1>0, PowersNat, ZenonT(30)
  <2>2. \A i \in Nat, j \in Nat \ {0} : i % j \in Nat /\ (i < j => i % j = i)
    OBVIOUS
  <2>3. n \in Nat /\ (Len(m) < 256^(k + 1) => n = Len(m))
    BY <1>0, <1>3, <2>1, <2>2
  <2> QED BY <1>0, <2>3
<1>5. ~TooLong(r) /\ r.state \in ToSet(LenStates) /\ r.state \notin {"IDLE", "DATA", "LRC", "WAIT_ACK"}
  <2>1. LenStates[k + 1] \in {"LEN_L", "LEN_L2", "LEN_H", "LEN_H2"}
    BY <1>0, LenStatesFacts DEF l
  <2>2. LenStates[k + 1] \in ToSet(LenStates)
    BY <1>0 DEF ToSet, l
  <2>3. Len(<<>>) = 0 /\ BufferSize \in Nat
    BY SettingsFacts
  <2> QED BY <1>1, <2>1, <2>2, <2>3 DEF TooLong
<1>6. DataLinkRx(r, b) = x /\ Verdict(r, b) = <<>>
  BY <1>5 DEF DataLinkRx, Verdict, AtLrc
<1>7. (CHOOSE j \in 1..Len(LenStates) : LenStates[j] = r.state) = k + 1
  BY <1>0, <1>1, LenStatesFacts DEF l
<1>8. x = [r EXCEPT !.cnt = n, !.lrc = c, !.state = next]
  <2>1. x = [r EXCEPT !.cnt = r.cnt + b * 256^((k + 1)-1), !.lrc = Xor(@, b),
                      !.state = IF k + 1 < Len(LenStates) THEN LenStates[(k + 1) + 1]
                                ELSE IF r.cnt + b * 256^((k + 1)-1) # 0 THEN "DATA" ELSE "IDLE"]
    <3> DEFINE j == CHOOSE j \in 1..Len(LenStates) : LenStates[j] = r.state
    <3>1. x = [r EXCEPT !.cnt = r.cnt + b * 256^(j-1), !.lrc = Xor(@, b),
                        !.state = IF j < Len(LenStates) THEN LenStates[j + 1]
                                  ELSE IF r.cnt + b * 256^(j-1) # 0 THEN "DATA" ELSE "IDLE"]
      BY DEF RxLen
    <3>2. j = k + 1
      BY <1>7
    <3> HIDE DEF j, x
    <3> QED BY <3>1, <3>2, ZenonT(30)
  <2>2. (k + 1) - 1 = k /\ (k + 1) + 1 = k + 2
    BY <1>0
  <2>3. next = IF k + 1 < Len(LenStates) THEN LenStates[k + 2] ELSE IF n # 0 THEN "DATA" ELSE "IDLE"
    BY <1>0, <1>4 DEF l
  <2>4. x = [r EXCEPT !.cnt = n, !.lrc = Xor(@, b),
                      !.state = IF k + 1 < Len(LenStates) THEN LenStates[k + 2]
                                ELSE IF n # 0 THEN "DATA" ELSE "IDLE"]
    BY <2>1, <2>2, ZenonT(30)
  <2> HIDE DEF next, n, x
  <2> QED BY <1>1, <2>3, <2>4 DEF Ports
<1>9. c = XorAll(SubSeq(Body(m), 1, k + 1)) /\ c \in Bytes
  <2> DEFINE s == SubSeq(Body(m), 1, k)
  <2>1. s \in Seq(Bytes) /\ SubSeq(Body(m), 1, k + 1) = Append(s, b) /\ r.lrc = XorAll(s)
    BY <1>1, <1>2
  <2> HIDE DEF s
  <2>2. XorAll(Append(s, b)) = Xor(XorAll(s), b)
    BY <1>2, <2>1, XorAllMore
  <2> QED BY <2>1, <2>2, XorType
<1>10. next \in {"LEN_L", "LEN_L2", "LEN_H", "LEN_H2", "DATA"}
  <2>1. k + 1 < l => k + 2 \in 1..l
    BY <1>0
  <2> QED BY <2>1, LenStatesFacts DEF l
<1> HIDE DEF n, c, x
<1>11. /\ x \in Ports /\ x.cnt = n /\ x.lrc = c /\ x.state = next /\ x.buf = <<>> /\ x.rxFlag
       /\ x.len = 0
  <2> HIDE DEF next
  <2>1. n \in Nat /\ c \in Bytes /\ next \in States
    BY <1>4, <1>9, <1>10 DEF States
  <2>2. r \in Ports /\ r.buf = <<>> /\ r.rxFlag /\ r.len = 0
    BY <1>1
  <2> QED BY <1>8, <2>1, <2>2, ZenonT(30) DEF Ports
<1>12. /\ Reads(r, b) \in Readers /\ Reads(r, b).rxFlag /\ Reads(r, b).cnt = n
       /\ Reads(r, b).lrc = c /\ Reads(r, b).state = next /\ Reads(r, b).buf = <<>>
  <2>1. PortOK(x) /\ x.state # "IDLE" /\ x.state # "WAIT_ACK"
    <3>1. Len(<<>>) = 0 /\ BufferSize \in Nat
      BY SettingsFacts
    <3> QED BY <1>10, <1>11, <3>1 DEF PortOK
  <2> HIDE DEF next
  <2>2. Reads(r, b) = Reader(x)
    BY <1>6 DEF Reads
  <2> QED BY <1>11, <2>1, <2>2, ReaderOf
<1>13. HalfRead(Reads(r, b), m, k + 1)
  <2>1. CASE k + 1 < l
    <3>1. k + 2 = (k + 1) + 1 /\ ~(k + 1 >= l)
      BY <1>0, <2>1
    <3> QED BY <1>3, <1>9, <1>12, <2>1, <3>1 DEF HalfRead, l
  <2>2. CASE k + 1 = l
    <3>1. /\ ~(k + 1 < l) /\ (k + 1) - l = 0 /\ k + 1 # l + Len(m) /\ n = Len(m)
          /\ next = "DATA"
      BY <1>0, <1>4, <2>2
    <3>2. SubSeq(m, 1, 0) = <<>>
      OBVIOUS
    <3> QED BY <1>9, <1>12, <3>1, <3>2 DEF HalfRead, l
  <2> QED BY <1>0, <2>1, <2>2
<1> QED BY <1>6, <1>13 DEF b

LEMMA ReadData ==
  ASSUME settings \in Settings, mode # "STX", NEW m \in Seq(Bytes) \ {<<>>},
         Len(m) <= BufferSize, NEW i \in 0..(Len(m) - 1),
         NEW r, HalfRead(r, m, Len(LenStates) + i)
  PROVE  LET b == Body(m)[Len(LenStates) + i + 1]
         IN Verdict(r, b) = <<>> /\ HalfRead(Reads(r, b), m, Len(LenStates) + i + 1)
<1> DEFINE l == Len(LenStates)
           k == l + i
           b == Body(m)[k + 1]
           x == RxData(r, b)
           c == Xor(r.lrc, b)
           more == Append(r.buf, b)
           next == IF i + 1 = Len(m) THEN "LRC" ELSE "DATA"
<1>0. l \in 1..4 /\ k \in Nat /\ Len(m) \in Nat \ {0} /\ i \in Nat /\ BufferSize \in Nat
  BY LenStatesFacts, SettingsFacts
<1>1. /\ r \in Ports /\ PortOK(r) /\ r.len = 0 /\ r.rxFlag /\ r.state = "DATA"
      /\ r.cnt = Len(m) /\ r.buf = SubSeq(m, 1, i) /\ r.lrc = XorAll(SubSeq(Body(m), 1, k))
  <2>1. ~(k < l) /\ k >= l /\ k - l = i /\ k # l + Len(m)
    BY <1>0
  <2> QED BY <2>1 DEF HalfRead, Readers
<1>2. /\ b = m[i + 1] /\ b \in Bytes /\ SubSeq(Body(m), 1, k) \in Seq(Bytes)
      /\ SubSeq(Body(m), 1, k + 1) = Append(SubSeq(Body(m), 1, k), b)
  <2> DEFINE y == Body(m)
  <2>0. i + 1 \in 1..Len(m) /\ l + (i + 1) = k + 1
    BY <1>0
  <2>1. y \in Seq(Bytes) /\ Len(y) = l + Len(m) /\ y[k + 1] = m[i + 1]
    BY <2>0, BodyFacts
  <2> HIDE DEF y
  <2>2. k + 1 \in 1..Len(y)
    BY <1>0, <2>1
  <2> HIDE DEF k
  <2>3. /\ y[k + 1] \in Bytes /\ SubSeq(y, 1, k) \in Seq(Bytes)
        /\ SubSeq(y, 1, k + 1) = Append(SubSeq(y, 1, k), y[k + 1])
    BY <1>0, <2>1, <2>2
  <2> QED BY <2>1, <2>3 DEF y
<1> HIDE DEF b
<1>3. more = SubSeq(m, 1, i + 1) /\ more \in Seq(Bytes) /\ Len(r.buf) = i
  BY <1>0, <1>1, <1>2
<1>4. ~TooLong(r)
  BY <1>0, <1>3 DEF TooLong
<1>8. ToSet(LenStates) \subseteq {"LEN_L", "LEN_L2", "LEN_H", "LEN_H2"}
  BY SettingsFacts DEF ToSet
<1>6. DataLinkRx(r, b) = x /\ Verdict(r, b) = <<>>
  BY <1>1, <1>4, <1>8 DEF DataLinkRx, Verdict, AtLrc
<1>7. x = [r EXCEPT !.lrc = c, !.buf = more, !.state = next]
  <2>1. x = [r EXCEPT !.lrc = Xor(@, b), !.buf = Append(@, b),
                      !.state = IF mode # "STX" /\ Len(r.buf) + 1 = r.cnt THEN "LRC" ELSE "DATA"]
    BY DEF RxData
  <2>2. next = IF mode # "STX" /\ Len(r.buf) + 1 = r.cnt THEN "LRC" ELSE "DATA"
    BY <1>1, <1>3
  <2> HIDE DEF next, x
  <2> QED BY <1>1, <2>1, <2>2 DEF Ports
<1>9. c = XorAll(SubSeq(Body(m), 1, k + 1)) /\ c \in Bytes
  <2> DEFINE s == SubSeq(Body(m), 1, k)
  <2>1. s \in Seq(Bytes) /\ SubSeq(Body(m), 1, k + 1) = Append(s, b) /\ r.lrc = XorAll(s)
    BY <1>1, <1>2
  <2> HIDE DEF s
  <2>2. XorAll(Append(s, b)) = Xor(XorAll(s), b)
    BY <1>2, <2>1, XorAllMore
  <2> QED BY <2>1, <2>2, XorType
<1> HIDE DEF c, x, more, k
<1>11. /\ x \in Ports /\ x.cnt = Len(m) /\ x.lrc = c /\ x.state = next /\ x.buf = more /\ x.rxFlag
       /\ x.len = 0
  <2>1. next \in {"LRC", "DATA"}
    OBVIOUS
  <2> HIDE DEF next
  <2> QED BY <1>1, <1>3, <1>7, <1>9, <2>1 DEF Ports, States
<1>12. /\ Reads(r, b) \in Readers /\ Reads(r, b).rxFlag /\ Reads(r, b).cnt = Len(m)
       /\ Reads(r, b).lrc = c /\ Reads(r, b).state = next /\ Reads(r, b).buf = more
  <2>1. PortOK(x) /\ x.state # "IDLE" /\ x.state # "WAIT_ACK"
    <3>1. Len(more) = i + 1
      BY <1>0, <1>3
    <3> QED BY <1>0, <1>11, <3>1 DEF PortOK
  <2> HIDE DEF next
  <2>2. Reads(r, b) = Reader(x)
    BY <1>6 DEF Reads
  <2>3. /\ Reader(x) \in Readers /\ Reader(x).rxFlag /\ Reader(x).cnt = x.cnt
        /\ Reader(x).lrc = x.lrc /\ Reader(x).state = x.state /\ Reader(x).buf = x.buf
    BY <1>11, <2>1, ReaderOf
  <2> QED BY <1>11, <2>2, <2>3
<1>13. HalfRead(Reads(r, b), m, k + 1)
  <2>1. ~(k + 1 < l) /\ (k + 1) - l = i + 1 /\ (k + 1 = l + Len(m) <=> i + 1 = Len(m))
    BY <1>0 DEF k
  <2> QED BY <1>3, <1>9, <1>12, <2>1 DEF HalfRead
<1> QED BY <1>6, <1>13 DEF b, k

LEMMA ReadSoh ==
  ASSUME settings \in Settings, mode # "STX", NEW m \in Seq(Bytes)
  PROVE  Verdict(FreshReader, SOH) = <<>> /\ HalfRead(Reads(FreshReader, SOH), m, 0)
<1> DEFINE r == FreshReader
           x == [r EXCEPT !.len = 0, !.cnt = 0, !.lrc = 0, !.buf = <<>>, !.state = "LEN_L"]
<1>0. /\ r \in Readers /\ r.rxFlag /\ r.state = "IDLE" /\ r.buf = <<>>
      /\ r \in Ports /\ 0 \in Bytes /\ <<>> \in Seq(Bytes) /\ Len(<<>>) = 0 /\ BufferSize \in Nat
  BY FreshOK, SettingsFacts DEF Readers, Bytes
<1> HIDE DEF r
<1>1. ~TooLong(r) /\ ToSet(LenStates) \subseteq {"LEN_L", "LEN_L2", "LEN_H", "LEN_H2"}
  BY <1>0, SettingsFacts DEF TooLong, ToSet
<1>2. DataLinkRx(r, SOH) = x /\ Verdict(r, SOH) = <<>>
  <2>1. DataLinkRx(r, SOH) = RxIdle(r, SOH)
    BY <1>0, <1>1 DEF DataLinkRx
  <2>2. RxIdle(r, SOH) = x
    BY DEF RxIdle
  <2> QED BY <1>0, <2>1, <2>2 DEF Verdict, AtLrc
<1>3. /\ x \in Ports /\ x.cnt = 0 /\ x.lrc = 0 /\ x.state = "LEN_L" /\ x.buf = <<>>
      /\ x.rxFlag /\ x.len = 0
  BY <1>0 DEF Ports, States
<1> HIDE DEF x
<1>4. PortOK(x)
  BY <1>0, <1>3 DEF PortOK
<1>5. /\ Reader(x) \in Readers /\ Reader(x).rxFlag /\ Reader(x).cnt = 0
      /\ Reader(x).lrc = 0 /\ Reader(x).state = "LEN_L" /\ Reader(x).buf = <<>>
  BY <1>3, <1>4, ReaderOf
<1>6. Reads(r, SOH) = Reader(x)
  BY <1>2 DEF Reads
<1>7. SubSeq(Body(m), 1, 0) = <<>> /\ XorAll(<<>>) = 0
  <2>1. SubSeq(Body(m), 1, 0) = <<>>
    BY BodyFacts
  <2>2. XorAll(<<>>) = 0
    <3>1. 0 \in Bytes /\ <<>> \in Seq(Bytes)
      BY <1>0
    <3> QED BY <3>1, XorAllMore
  <2> QED BY <2>1, <2>2
<1>8. Len(m) % 256^0 = 0
  <2>1. \A n \in Nat : n % 1 = 0
    OBVIOUS
  <2>2. Len(m) \in Nat
    OBVIOUS
  <2> QED BY <2>1, <2>2, Powers
<1>9. 0 < Len(LenStates) /\ ~(0 >= Len(LenStates)) /\ LenStates[0 + 1] = "LEN_L"
  BY LenStatesFacts
<1>10. HalfRead(Reader(x), m, 0)
  BY <1>5, <1>7, <1>8, <1>9 DEF HalfRead
<1> QED BY <1>2, <1>6, <1>10 DEF r

\* One byte heard.
LEMMA HearingOne ==
  ASSUME settings \in Settings, NEW r \in Readers, NEW b \in Bytes
  PROVE  After(r, <<b>>) = Reads(r, b) /\ Said(r, <<b>>) = Verdict(r, b)
<1> DEFINE e == <<>>
           d == Verdict(r, b)
<1>1. e \in Seq(Bytes) /\ <<b>> = Append(e, b)
  OBVIOUS
<1>2. After(r, e) = r /\ Said(r, e) = <<>>
  BY HearingNone
<1>3. d \in Seq(Verdicts)
  BY ReadsType
<1> HIDE DEF e
<1>4. /\ After(r, Append(e, b)) = Reads(After(r, e), b)
      /\ Said(r, Append(e, b)) = Said(r, e) \o Verdict(After(r, e), b)
  BY <1>1, HearingMore
<1>5. Said(r, <<b>>) = <<>> \o d /\ After(r, <<b>>) = Reads(r, b)
  BY <1>1, <1>2, <1>4
<1> HIDE DEF d
<1>6. <<>> \o d = d
  BY <1>3
<1> QED BY <1>5, <1>6 DEF d

\* A package that arrives whole at a fresh reader is acknowledged, gives its message and
\* leaves the reader fresh, in every format but STX and for any message that fits
\* (OS_AUX_DataLinkTx_DLL, OS_AUX_DataLinkRx_DLL).
THEOREM PackageReadBack ==
  ASSUME settings \in Settings, mode # "STX", Fits, NEW m \in Messages
  PROVE  /\ Said(FreshReader, Package(m)) = <<Good(m)>>
         /\ After(FreshReader, Package(m)) = FreshReader
<1> DEFINE l == Len(LenStates)
           n == l + Len(m)
           body == Body(m)
           u(k) == <<SOH>> \o SubSeq(body, 1, k)
           P(k) == /\ Said(FreshReader, u(k)) = <<>>
                   /\ HalfRead(After(FreshReader, u(k)), m, k)
<1>0. /\ m \in Seq(Bytes) /\ m \in Seq(Bytes) \ {<<>>} /\ Len(m) <= BufferSize /\ Len(m) < 256^l
      /\ l \in 1..4 /\ Len(m) \in Nat \ {0} /\ SOH \in Bytes
  <2>1. m \in Seq(Bytes) \ {<<>>} /\ SOH \in Bytes
    BY AuxAssumption DEF SOH, Bytes
  <2>2. Len(m) <= BufferSize /\ Len(m) \div 256^(l - 1) < 256
    BY DEF Fits
  <2> HIDE DEF l
  <2>3. l \in 1..4 /\ Len(m) \in Nat \ {0}
    BY <2>1, LenStatesFacts DEF l
  <2>4. Len(m) < 256^l
    BY <2>2, <2>3, TopDigit
  <2> QED BY <2>1, <2>2, <2>3, <2>4
<1>1. body \in Seq(Bytes) /\ Len(body) = n /\ n \in Nat /\ XorAll(body) \in Bytes
  <2>1. body \in Seq(Bytes) /\ Len(body) = n
    BY <1>0, BodyFacts
  <2>2. n \in Nat
    BY <1>0
  <2> HIDE DEF body, n
  <2>3. Len(body) \in Nat
    BY <2>1
  <2> QED BY <2>1, <2>2, <2>3, XorAllType
<1> HIDE DEF body, n, l
<1>2. P(0)
  <2>1. u(0) = <<SOH>>
    <3>1. SubSeq(body, 1, 0) = <<>> /\ <<SOH>> \o <<>> = <<SOH>>
      BY <1>1
    <3> QED BY <3>1, Zenon
  <2>2. FreshReader \in Readers
    BY FreshOK
  <2>3. Verdict(FreshReader, SOH) = <<>> /\ HalfRead(Reads(FreshReader, SOH), m, 0)
    BY <1>0, ReadSoh
  <2>4. /\ After(FreshReader, <<SOH>>) = Reads(FreshReader, SOH)
        /\ Said(FreshReader, <<SOH>>) = Verdict(FreshReader, SOH)
    BY <1>0, <2>2, HearingOne
  <2> QED BY <2>1, <2>3, <2>4
<1>3. ASSUME NEW k \in 0..(n - 1), P(k) PROVE P(k + 1)
  <2> DEFINE r == After(FreshReader, u(k))
             b == body[k + 1]
  <2>1. u(k) \in Seq(Bytes) /\ b \in Bytes /\ u(k + 1) = Append(u(k), b)
    <3>1. k + 1 \in 1..Len(body)
      BY <1>1
    <3>2. /\ b \in Bytes /\ SubSeq(body, 1, k) \in Seq(Bytes)
          /\ SubSeq(body, 1, k + 1) = Append(SubSeq(body, 1, k), b)
      BY <1>1, <3>1
    <3> DEFINE s == SubSeq(body, 1, k)
    <3> HIDE DEF s, b
    <3>3. /\ <<SOH>> \in Seq(Bytes) /\ <<SOH>> \o s \in Seq(Bytes)
          /\ <<SOH>> \o Append(s, b) = Append(<<SOH>> \o s, b)
      BY <1>0, <3>2 DEF s
    <3> QED BY <3>2, <3>3 DEF s
  <2>2. Verdict(r, b) = <<>> /\ HalfRead(Reads(r, b), m, k + 1)
    <3>1. CASE k < l
      <4>1. k \in 0..(Len(LenStates) - 1)
        BY <1>0, <1>1, <3>1 DEF l
      <4> HIDE DEF r
      <4>2. HalfRead(r, m, k)
        BY <1>3 DEF r
      <4> QED BY <1>0, <4>1, <4>2, ReadLength DEF b, body, l
    <3>2. CASE k >= l
      <4>1. PICK i \in Nat : k = l + i
        <5>1. k - l \in Nat /\ k = l + (k - l)
          BY <1>0, <1>1, <3>2
        <5> QED BY <5>1
      <4>2. i \in 0..(Len(m) - 1)
        BY <1>0, <1>1, <4>1 DEF n
      <4> HIDE DEF r
      <4>3. HalfRead(r, m, l + i)
        BY <1>3, <4>1 DEF r
      <4>4. /\ Verdict(r, Body(m)[l + i + 1]) = <<>>
            /\ HalfRead(Reads(r, Body(m)[l + i + 1]), m, l + i + 1)
        BY <1>0, <4>2, <4>3, ReadData DEF l
      <4> QED BY <4>1, <4>4 DEF b, body
    <3> QED BY <1>0, <1>1, <3>1, <3>2
  <2> DEFINE w == u(k)
  <2>3. w \in Seq(Bytes) /\ u(k + 1) = Append(w, b) /\ Said(FreshReader, w) = <<>> /\ r = After(FreshReader, w)
    BY <1>3, <2>1
  <2> HIDE DEF w, b, r
  <2>4. /\ After(FreshReader, Append(w, b)) = Reads(After(FreshReader, w), b)
        /\ Said(FreshReader, Append(w, b)) = Said(FreshReader, w) \o Verdict(After(FreshReader, w), b)
    BY <2>1, <2>3, HearingMore
  <2>5. <<>> \o <<>> = <<>>
    OBVIOUS
  <2> HIDE DEF u
  <2> QED BY <2>2, <2>3, <2>4, <2>5
<1>4. P(n)
  <2> DEFINE S == {k \in 0..n : P(k)}
  <2> HIDE DEF P
  <2>1. 0 \in S
    BY <1>1, <1>2
  <2>2. \A k \in 0..(n - 1) : k \in S => k + 1 \in S
    BY <1>1, <1>3
  <2> HIDE DEF S
  <2>3. 0..n \subseteq S
    BY <1>1, <2>1, <2>2, BoundedInduction
  <2> QED BY <1>1, <2>3 DEF S
<1> DEFINE whole == <<SOH>> \o body
           r == After(FreshReader, whole)
           b == XorAll(body)
<1>5. SubSeq(body, 1, n) = body /\ u(n) = whole /\ whole \in Seq(Bytes)
  BY <1>0, <1>1
<1>6. Package(m) = Append(whole, b)
  <2>1. Package(m) = <<SOH>> \o body \o <<b>>
    BY DEF Package, body, Body
  <2> HIDE DEF b, whole
  <2>2. whole \o <<b>> = Append(whole, b)
    BY <1>1, <1>5 DEF b
  <2> QED BY <2>1, <2>2 DEF whole
<1>7. HalfRead(r, m, n) /\ Said(FreshReader, whole) = <<>>
  BY <1>4, <1>5
<1> HIDE DEF u, P, whole
<1>8. SubSeq(m, 1, n - l) = m /\ n >= l /\ ~(n < l)
  <2>1. n - l = Len(m) /\ n >= l
    BY <1>0 DEF n
  <2>2. SubSeq(m, 1, Len(m)) = m
    BY <1>0
  <2> QED BY <1>0, <1>1, <2>1, <2>2
<1>9. r \in Readers /\ r.rxFlag /\ r.lrc = b /\ r.buf = m /\ r.state = "LRC"
  BY <1>5, <1>7, <1>8 DEF HalfRead, l, n, body
<1> HIDE DEF r, b
<1>10. AtLrc(r) /\ Verdict(r, b) = <<Good(m)>>
  <2>1. ~TooLong(r)
    BY <1>0, <1>9, SettingsFacts DEF TooLong
  <2> QED BY <1>9, <2>1 DEF AtLrc, Verdict
<1>11. Reads(r, b) = FreshReader
  <2>1. r \in Ports
    BY <1>9 DEF Readers
  <2> DEFINE q == [r EXCEPT !.len = Len(r.buf)]
  <2>2. q \in Ports
    BY <1>0, <1>9, <2>1, SMTT(30) DEF Ports
  <2>3. DataLinkRx(r, b) = RxEnd(q)
    <3>1. ToSet(LenStates) \subseteq {"LEN_L", "LEN_L2", "LEN_H", "LEN_H2"}
      BY SettingsFacts DEF ToSet
    <3>2. DataLinkRx(r, b) = RxLrc(r, b)
      BY <1>9, <1>10, <3>1 DEF DataLinkRx, AtLrc
    <3> QED BY <1>9, <3>2 DEF RxLrc
  <2> HIDE DEF q
  <2>4. RxEnd(q) \in Ports /\ ~RxEnd(q).rxFlag
    BY <2>2 DEF RxEnd, Ports, States
  <2> QED BY <2>3, <2>4, IdleReader DEF Reads
<1>12. /\ After(FreshReader, Append(whole, b)) = Reads(r, b)
       /\ Said(FreshReader, Append(whole, b)) = <<>> \o Verdict(r, b)
  <2>1. b \in Bytes
    BY <1>1 DEF b
  <2> QED BY <1>5, <1>7, <2>1, HearingMore DEF r
<1>13. <<>> \o <<Good(m)>> = <<Good(m)>>
  OBVIOUS
<1> QED BY <1>6, <1>10, <1>11, <1>12, <1>13

----------------------------------------------------------------------------
\* What is on its way to the receiver: c tells the reader that it is, the bytes on the line
\* and whether they have been struck, the faults, the messages posted, whether the sender's
\* package is still to be judged, and whether the timer thread is about to discard.

\* r had read nothing of a transmission of m. It has read u now, and v is still to come.
Passing(c, r, m, u, v) ==
  /\ u \o v \in Transmissions(r, m)
  /\ c.ear = After(r, u)
  /\ ~c.struck /\ v # <<>> => u \o v = Package(m)
  /\ c.faults = 0 => r = FreshReader /\ u \o v = Package(m)

\* The receiver is between two packages.
Resting(c) == c.bytes = <<>> /\ c.ear = FreshReader

\* It is in the latest, and has not judged it.
Undecided(c, r, m, u, v) ==
  /\ c.posted # <<>> /\ m = Last(c.posted)
  /\ c.bytes = v /\ c.awaited
  /\ Passing(c, r, m, u, v) /\ Said(r, u) = <<>>
  /\ c.tob => u = <<>> \/ v = <<>>

\* It has judged it and skips the rest, which the next one may follow.
Decided(c, r, m, u, v) ==
  /\ \/ c.bytes = v
     \/ /\ v # <<>> /\ c.posted # <<>> /\ c.awaited
        /\ c.bytes = v \o Package(Last(c.posted))
  /\ Passing(c, r, m, u, v) /\ Said(r, u) # <<>>
  /\ c.tob => c.bytes = <<>>

Track(S, c) ==
  \/ Resting(c)
  \/ \E r \in S \cap Readers, m \in Messages, u \in Seq(Bytes), v \in Seq(Bytes) :
       Undecided(c, r, m, u, v) \/ Decided(c, r, m, u, v)

\* Where the noise is harmless.
Calm(S) == settings \in Settings /\ mode # "STX" /\ Fits /\ Harmless(S)

LEMMA TransmissionType ==
  ASSUME settings \in Settings, NEW r, NEW m \in Messages
  PROVE  /\ Transmissions(r, m) \subseteq Seq(Bytes)
         /\ Package(m) \in Transmissions(r, m)
         /\ Transmissions(r, m) \subseteq Transmissions(FreshReader, m)
<1> DEFINE x == Package(m)
<1>1. x \in Seq(Bytes)
  BY PackageType
<1> HIDE DEF x
<1>2. ASSUME NEW y \in Lost(x) PROVE y \in Seq(Bytes)
  <2>1. PICK k \in 1..Len(x) : y = SubSeq(x, 1, k-1) \o SubSeq(x, k+1, Len(x))
    BY DEF Lost, RemoveAt
  <2>2. SubSeq(x, 1, k-1) \in Seq(Bytes) /\ SubSeq(x, k+1, Len(x)) \in Seq(Bytes)
    BY <1>1
  <2> QED BY <2>1, <2>2
<1>3. ASSUME NEW y \in Damaged(x) PROVE y \in Seq(Bytes)
  <2>1. PICK k \in 1..Len(x), b \in Noise : y = [x EXCEPT ![k] = b]
    BY DEF Damaged
  <2>2. b \in Bytes
    BY AuxAssumption
  <2> QED BY <1>1, <2>1, <2>2
<1>4. Transmissions(r, m) \subseteq Seq(Bytes)
  BY <1>1, <1>2, <1>3 DEF Transmissions, x
<1>5. Package(m) \in Transmissions(r, m)
  BY DEF Transmissions
<1>6. Transmissions(r, m) \subseteq Transmissions(FreshReader, m)
  BY DEF Transmissions
<1> QED BY <1>4, <1>5, <1>6

LEMMA CatAt ==
  ASSUME NEW T, NEW n, NEW k, NEW s \in Seq(T), NEW t \in Seq(T), Len(s) = n, Len(t) = k
  PROVE  /\ s \o t \in Seq(T) /\ Len(s \o t) = n + k
         /\ \A i \in 1..(n + k) : (s \o t)[i] = IF i <= n THEN s[i] ELSE t[i - n]
OBVIOUS

LEMMA ExceptAt ==
  ASSUME NEW T, NEW s \in Seq(T), NEW k \in 1..Len(s), NEW b \in T
  PROVE  /\ [s EXCEPT ![k] = b] \in Seq(T) /\ Len([s EXCEPT ![k] = b]) = Len(s)
         /\ \A i \in 1..Len(s) : [s EXCEPT ![k] = b][i] = IF i = k THEN b ELSE s[i]
OBVIOUS

\* A byte in the middle of a sequence is removed, or changed.
LEMMA CatHit ==
  ASSUME NEW T, NEW u \in Seq(T), NEW v \in Seq(T), v # <<>>, NEW b \in T
  PROVE  /\ Len(u) + 1 \in 1..Len(u \o v) /\ Tail(v) \in Seq(T)
         /\ u \o Tail(v) = RemoveAt(u \o v, Len(u) + 1)
         /\ [v EXCEPT ![1] = b] \in Seq(T) /\ [v EXCEPT ![1] = b] # <<>>
         /\ u \o [v EXCEPT ![1] = b] = [u \o v EXCEPT ![Len(u) + 1] = b]
<1> DEFINE n == Len(u)
           k == Len(v)
           x == u \o v
           t == Tail(v)
           w == [v EXCEPT ![1] = b]
<1>1. n \in Nat /\ k \in Nat \ {0} /\ t \in Seq(T) /\ Len(t) = k - 1 /\ \A i \in 1..(k-1) : t[i] = v[i + 1]
  OBVIOUS
<1>2. w \in Seq(T) /\ w # <<>> /\ Len(w) = k /\ \A i \in 1..k : w[i] = IF i = 1 THEN b ELSE v[i]
  OBVIOUS
<1>3. x \in Seq(T) /\ Len(x) = n + k /\ \A i \in 1..(n + k) : x[i] = IF i <= n THEN u[i] ELSE v[i - n]
  OBVIOUS
<1> HIDE DEF t, w, x, n, k
<1>4. n + 1 \in 1..Len(x)
  BY <1>1, <1>3
<1>5. /\ u \o t \in Seq(T) /\ Len(u \o t) = n + (k - 1)
      /\ \A i \in 1..(n + (k - 1)) : (u \o t)[i] = IF i <= n THEN u[i] ELSE t[i - n]
  <2>1. u \in Seq(T) /\ Len(u) = n
    BY DEF n
  <2>2. t \in Seq(T) /\ Len(t) = k - 1
    BY <1>1
  <2> QED BY <2>1, <2>2, CatAt
<1>6. /\ u \o w \in Seq(T) /\ Len(u \o w) = n + k
      /\ \A i \in 1..(n + k) : (u \o w)[i] = IF i <= n THEN u[i] ELSE w[i - n]
  <2>1. u \in Seq(T) /\ Len(u) = n
    BY DEF n
  <2> QED BY <1>2, <2>1, CatAt
<1>7. u \o t = RemoveAt(x, n + 1)
  <2> DEFINE l == SubSeq(x, 1, n)
             r == SubSeq(x, n + 2, n + k)
  <2>1. l \in Seq(T) /\ Len(l) = n /\ \A i \in 1..n : l[i] = x[i]
    BY <1>1, <1>3
  <2>2. r \in Seq(T) /\ Len(r) = k - 1 /\ \A i \in 1..(k - 1) : r[i] = x[i + n + 1]
    BY <1>1, <1>3
  <2>3. RemoveAt(x, n + 1) = l \o r
    <3>1. (n + 1) - 1 = n /\ (n + 1) + 1 = n + 2
      BY <1>1
    <3> QED BY <1>3, <3>1 DEF RemoveAt
  <2> HIDE DEF l, r
  <2>4. /\ l \o r \in Seq(T) /\ Len(l \o r) = n + (k - 1)
        /\ \A i \in 1..(n + (k - 1)) : (l \o r)[i] = IF i <= n THEN l[i] ELSE r[i - n]
    <3>1. l \in Seq(T) /\ Len(l) = n /\ r \in Seq(T) /\ Len(r) = k - 1
      BY <2>1, <2>2
    <3> QED BY <3>1, CatAt
  <2>5. ASSUME NEW i \in 1..(n + (k - 1)) PROVE (u \o t)[i] = (l \o r)[i]
    <3>1. CASE i <= n
      <4>1. i \in 1..n /\ i \in 1..(n + k)
        BY <1>1, <3>1
      <4> QED BY <1>3, <1>5, <2>1, <2>4, <3>1, <4>1
    <3>2. CASE ~(i <= n)
      <4>1. i - n \in 1..(k-1) /\ (i - n) + n + 1 \in 1..(n + k) /\ (i - n) + n + 1 = i + 1 /\ (i + 1) - n = (i - n) + 1
            /\ ~(i + 1 <= n) /\ i + 1 \in 1..(n + k)
        BY <1>1, <3>2
      <4>2. (u \o t)[i] = v[(i - n) + 1]
        BY <1>1, <1>5, <3>2, <4>1
      <4>3. (l \o r)[i] = x[i + 1]
        BY <2>2, <2>4, <3>2, <4>1
      <4>4. x[i + 1] = v[(i + 1) - n]
        BY <1>3, <4>1
      <4> QED BY <4>1, <4>2, <4>3, <4>4
    <3> QED BY <3>1, <3>2
  <2>6. u \o t = l \o r
    <3> DEFINE y == u \o t
               z == l \o r
    <3>1. y \in Seq(T) /\ z \in Seq(T) /\ Len(y) = Len(z) /\ \A i \in 1..Len(y) : y[i] = z[i]
      BY <1>5, <2>4, <2>5
    <3> HIDE DEF y, z
    <3>2. y = z
      BY <3>1
    <3> QED BY <3>2 DEF y, z
  <2> QED BY <2>3, <2>6
<1>8. u \o w = [x EXCEPT ![n + 1] = b]
  <2> DEFINE z == [x EXCEPT ![n + 1] = b]
  <2>1. z \in Seq(T) /\ Len(z) = n + k /\ \A i \in 1..(n + k) : z[i] = IF i = n + 1 THEN b ELSE x[i]
    BY <1>3, <1>4, ExceptAt
  <2> HIDE DEF z
  <2>2. ASSUME NEW i \in 1..(n + k) PROVE (u \o w)[i] = z[i]
    <3>1. CASE i <= n
      <4>1. i # n + 1
        BY <1>1, <3>1
      <4> QED BY <1>3, <1>6, <2>1, <3>1, <4>1
    <3>2. CASE ~(i <= n)
      <4>1. i - n \in 1..k /\ (i - n = 1 <=> i = n + 1)
        BY <1>1, <3>2
      <4> QED BY <1>2, <1>3, <1>6, <2>1, <3>2, <4>1, SMTT(30)
    <3> QED BY <3>1, <3>2
  <2> DEFINE y == u \o w
  <2>3. y \in Seq(T) /\ Len(y) = Len(z) /\ \A i \in 1..Len(y) : y[i] = z[i]
    BY <1>6, <2>1, <2>2
  <2> HIDE DEF y
  <2>4. y = z
    BY <2>1, <2>3
  <2> QED BY <2>4 DEF y, z
<1> QED BY <1>1, <1>2, <1>4, <1>7, <1>8 DEF x, n, t, w

LEMMA LostOrDamaged ==
  ASSUME settings \in Settings, NEW r, NEW m \in Messages,
         NEW u \in Seq(Bytes), NEW v \in Seq(Bytes), v # <<>>, u \o v = Package(m)
  PROVE  /\ Tail(v) \in Seq(Bytes)
         /\ "lose" \in FaultKinds => u \o Tail(v) \in Transmissions(r, m)
         /\ "damage" \in FaultKinds =>
              \A b \in Noise : /\ [v EXCEPT ![1] = b] \in Seq(Bytes) /\ [v EXCEPT ![1] = b] # <<>>
                               /\ u \o [v EXCEPT ![1] = b] \in Transmissions(FreshReader, m)
<1> DEFINE x == Package(m)
           k == Len(u) + 1
<1>1. k \in 1..Len(x) /\ Tail(v) \in Seq(Bytes) /\ u \o Tail(v) = RemoveAt(x, k)
  <2>1. 0 \in Bytes
    BY DEF Bytes
  <2>2. /\ Len(u) + 1 \in 1..Len(u \o v) /\ Tail(v) \in Seq(Bytes)
        /\ u \o Tail(v) = RemoveAt(u \o v, Len(u) + 1)
    BY <2>1, CatHit
  <2> QED BY <2>2
<1>2. ASSUME NEW b \in Noise
      PROVE  /\ [v EXCEPT ![1] = b] \in Seq(Bytes) /\ [v EXCEPT ![1] = b] # <<>>
             /\ u \o [v EXCEPT ![1] = b] = [x EXCEPT ![k] = b]
  <2>1. b \in Bytes
    BY AuxAssumption
  <2> QED BY <2>1, CatHit
<1> HIDE DEF x, k
<1>3. ASSUME "lose" \in FaultKinds PROVE u \o Tail(v) \in Transmissions(r, m)
  <2>1. u \o Tail(v) \in Lost(x)
    BY <1>1, <1>3, Zenon DEF Lost
  <2> QED BY <2>1 DEF Transmissions, x
<1>4. ASSUME "damage" \in FaultKinds, NEW b \in Noise
      PROVE  u \o [v EXCEPT ![1] = b] \in Transmissions(FreshReader, m)
  <2>1. [x EXCEPT ![k] = b] \in Damaged(x)
    <3>1. k \in {j \in 1..Len(x) : "damage" \in FaultKinds}
      BY <1>1, <1>4
    <3> QED BY <3>1 DEF Damaged
  <2> QED BY <1>2, <2>1 DEF Transmissions, x
<1> QED BY <1>1, <1>2, <1>3, <1>4

\* Every transmission of a message is missed, taken for that message, or refused.
LEMMA AllBear ==
  ASSUME NEW S, Calm(S), NEW r \in S \cap Readers, NEW m \in Messages,
         NEW x \in Transmissions(r, m), Said(r, x) # <<>>
  PROVE  /\ Said(r, x) \in {<<Good(m)>>, <<Bad>>} /\ After(r, x) \in S \cap Readers
         /\ r = FreshReader /\ x = Package(m) => After(r, x) = FreshReader
<1>1. x \in Seq(Bytes) /\ settings \in Settings
  BY TransmissionType DEF Calm
<1>2. After(r, x) \in Readers
  BY <1>1, HearingType
<1>3. CASE r = FreshReader /\ x = Package(m)
  <2>1. Said(r, x) = <<Good(m)>> /\ After(r, x) = FreshReader
    BY <1>3, PackageReadBack DEF Calm
  <2> QED BY <1>2, <2>1 DEF Calm, Harmless
<1>4. CASE ~(r = FreshReader /\ x = Package(m))
  <2>1. Bears(r, m, x, S)
    BY <1>4 DEF Calm, Harmless
  <2> QED BY <1>2, <1>4, <2>1 DEF Bears
<1> QED BY <1>3, <1>4

\* Nothing that the track depends on has changed, unless it was over.
LEMMA TrackKept ==
  ASSUME NEW S, NEW c, NEW d, Track(S, c),
         d.ear = c.ear, d.bytes = c.bytes, d.struck = c.struck, d.posted = c.posted,
         d.faults = 0 => c.faults = 0, c.awaited => d.awaited,
         d.tob => c.tob \/ c.bytes = <<>>
  PROVE  Track(S, d)
<1>1. CASE Resting(c)
  BY <1>1 DEF Track, Resting
<1>2. ASSUME NEW r \in S \cap Readers, NEW m \in Messages, NEW u \in Seq(Bytes), NEW v \in Seq(Bytes),
             Undecided(c, r, m, u, v) \/ Decided(c, r, m, u, v)
      PROVE  Undecided(d, r, m, u, v) \/ Decided(d, r, m, u, v)
  <2>1. Passing(c, r, m, u, v) => Passing(d, r, m, u, v)
    BY DEF Passing
  <2> QED BY <1>2, <2>1 DEF Undecided, Decided
<1> QED BY <1>1, <1>2 DEF Track

LEMMA TrackCleared ==
  ASSUME NEW S, NEW d, d.bytes = <<>>, d.ear = FreshReader
  PROVE  Track(S, d)
BY DEF Track, Resting

\* A package is sent to a receiver that rests, or that has judged the one before.
LEMMA TrackNext ==
  ASSUME NEW S, Calm(S), NEW d, d.posted # <<>>, Last(d.posted) \in Messages, d.awaited,
         d.bytes = Package(Last(d.posted)), d.ear \in S \cap Readers,
         d.faults = 0 => d.ear = FreshReader
  PROVE  Track(S, d)
<1> DEFINE r == d.ear
           m == Last(d.posted)
           u == <<>>
           v == Package(m)
<1>1. settings \in Settings /\ m \in Messages /\ r \in S \cap Readers
  BY DEF Calm
<1>2. u \in Seq(Bytes) /\ v \in Seq(Bytes) /\ u \o v = v
  <2>1. v \in Seq(Bytes)
    BY <1>1, PackageType
  <2> HIDE DEF v
  <2> QED BY <2>1
<1>3. Passing(d, r, m, u, v) /\ Said(r, u) = <<>>
  <2>1. v \in Transmissions(r, m)
    BY <1>1, TransmissionType
  <2>2. After(r, u) = r /\ Said(r, u) = <<>>
    BY HearingNone
  <2> QED BY <1>2, <2>1, <2>2 DEF Passing
<1>4. Undecided(d, r, m, u, v)
  BY <1>3 DEF Undecided
<1> QED BY <1>1, <1>2, <1>4 DEF Track

LEMMA FreshIn ==
  ASSUME NEW S, Calm(S)
  PROVE  FreshReader \in S \cap Readers
BY FreshOK DEF Calm, Harmless

\* The next one after a transmission that has been judged.
LEMMA TrackAfter ==
  ASSUME NEW S, Calm(S), NEW d, d.posted # <<>>, Last(d.posted) \in Messages, d.awaited,
         d.bytes = Package(Last(d.posted)),
         NEW r \in S \cap Readers, NEW m \in Messages, NEW x \in Transmissions(r, m),
         Said(r, x) # <<>>, d.ear = After(r, x),
         d.faults = 0 => r = FreshReader /\ x = Package(m)
  PROVE  Track(S, d)
<1>1. /\ After(r, x) \in S \cap Readers
      /\ r = FreshReader /\ x = Package(m) => After(r, x) = FreshReader
  BY AllBear
<1> QED BY <1>1, TrackNext

LEMMA TrackSent ==
  ASSUME NEW S, Calm(S), NEW c, NEW d, Track(S, c), ~c.awaited \/ Resting(c),
         d.posted # <<>>, Last(d.posted) \in Messages, d.awaited,
         c.bytes \in Seq(Bytes), d.bytes = c.bytes \o Package(Last(d.posted)),
         d.ear = c.ear, d.struck = c.struck, d.faults = c.faults, d.tob = c.tob
  PROVE  Track(S, d)
<1> DEFINE p == Package(Last(d.posted))
<1>0. p \in Seq(Bytes) /\ p # <<>> /\ <<>> \o p = p
  <2>1. p \in Seq(Bytes) /\ p # <<>>
    BY PackageType DEF Calm
  <2> HIDE DEF p
  <2> QED BY <2>1
<1> HIDE DEF p
<1>1. CASE Resting(c)
  <2>1. d.bytes = p /\ d.ear = FreshReader
    BY <1>0, <1>1 DEF Resting, p
  <2> QED BY <2>1, FreshIn, TrackNext DEF p
<1>2. CASE ~c.awaited /\ ~Resting(c)
  <2>1. PICK r \in S \cap Readers, m \in Messages, u \in Seq(Bytes), v \in Seq(Bytes) :
          Decided(c, r, m, u, v)
    BY <1>2 DEF Track, Undecided
  <2>2. c.bytes = v /\ Passing(c, r, m, u, v) /\ Said(r, u) # <<>> /\ (c.tob => c.bytes = <<>>)
    BY <1>2, <2>1 DEF Decided
  <2>3. CASE v = <<>>
    <3>1. u \o v = u /\ d.bytes = p
      BY <1>0, <2>2, <2>3 DEF p
    <3>2. u \in Transmissions(r, m) /\ d.ear = After(r, u)
          /\ (d.faults = 0 => r = FreshReader /\ u = Package(m))
      BY <2>2, <3>1 DEF Passing
    <3> QED BY <2>2, <3>1, <3>2, TrackAfter DEF p
  <2>4. CASE v # <<>>
    <3>1. Passing(d, r, m, u, v)
      BY <2>2 DEF Passing
    <3>2. Decided(d, r, m, u, v)
      BY <2>2, <2>4, <3>1 DEF Decided
    <3> QED BY <3>2 DEF Track
  <2> QED BY <2>3, <2>4
<1> QED BY <1>1, <1>2

\* The timer thread discards what the reader has read. It has found the line silent.
LEMMA TrackDropped ==
  ASSUME NEW S, Calm(S), NEW c, NEW d, Track(S, c), c.tob, d.ear = FreshReader,
         d.bytes = c.bytes, d.struck = c.struck, d.posted = c.posted, d.faults = c.faults,
         d.awaited = c.awaited, ~d.tob
  PROVE  Track(S, d)
<1>1. CASE c.bytes = <<>>
  BY <1>1, TrackCleared
<1>2. CASE c.bytes # <<>>
  <2>1. PICK r \in S \cap Readers, m \in Messages, u \in Seq(Bytes), v \in Seq(Bytes) :
          Undecided(c, r, m, u, v)
    BY <1>2 DEF Track, Resting, Decided
  <2>2. u = <<>> /\ Passing(c, r, m, u, v) /\ c.bytes = v
    BY <1>2, <2>1 DEF Undecided
  <2> DEFINE s == FreshReader
  <2>3. s \in S \cap Readers /\ After(s, u) = s /\ Said(s, u) = <<>>
    BY <2>2, FreshIn, HearingNone
  <2>4. u \o v \in Transmissions(s, m)
    BY <2>2, TransmissionType DEF Passing, Calm
  <2>5. Passing(d, s, m, u, v)
    BY <2>2, <2>3, <2>4 DEF Passing
  <2>6. Undecided(d, s, m, u, v)
    BY <2>1, <2>3, <2>5 DEF Undecided
  <2> QED BY <2>3, <2>6 DEF Track
<1> QED BY <1>1, <1>2

\* A sequence that grows to one element, and not by nothing, grows from nothing.
LEMMA OneSaid ==
  ASSUME NEW T, NEW s \in Seq(T), NEW w \in Seq(T), NEW t \in Seq(T), w # <<>>,
         Len((s \o w) \o t) = 1
  PROVE  s = <<>> /\ (s \o w) \o t = w
<1>1. Len((s \o w) \o t) = Len(s) + Len(w) + Len(t)
  OBVIOUS
<1>2. Len(s) \in Nat /\ Len(w) \in Nat /\ Len(t) \in Nat /\ Len(w) > 0
  OBVIOUS
<1>3. Len(s) = 0 /\ Len(t) = 0
  BY <1>1, <1>2
<1>4. s = <<>> /\ t = <<>>
  BY <1>3
<1> QED BY <1>4

\* The receiver reads the next byte. If it judges the package, then it is the latest one,
\* which the sender is still waiting to hear of.
LEMMA TrackRead ==
  ASSUME NEW S, Calm(S), NEW c, NEW d, Track(S, c),
         c.bytes \in Seq(Bytes), c.bytes # <<>>, c.posted # <<>> => Last(c.posted) \in Messages,
         d.bytes = Tail(c.bytes), d.ear = Reads(c.ear, Head(c.bytes)),
         d.struck <=> c.struck /\ d.bytes # <<>>,
         d.faults = c.faults, d.posted = c.posted, ~d.tob,
         Verdict(c.ear, Head(c.bytes)) = <<>> => d.awaited = c.awaited
  PROVE  /\ Track(S, d)
         /\ Verdict(c.ear, Head(c.bytes)) # <<>> =>
              /\ c.awaited /\ c.posted # <<>>
              /\ Verdict(c.ear, Head(c.bytes)) \in {<<Good(Last(c.posted))>>, <<Bad>>}
<1> DEFINE b == Head(c.bytes)
           w == Verdict(c.ear, b)
<1>0. settings \in Settings /\ b \in Bytes
  BY DEF Calm
<1>1. PICK r \in S \cap Readers, m \in Messages, u \in Seq(Bytes), v \in Seq(Bytes) :
        Undecided(c, r, m, u, v) \/ Decided(c, r, m, u, v)
  BY DEF Track, Resting
<1>2. /\ Passing(c, r, m, u, v) /\ v # <<>> /\ Head(v) = b
      /\ \/ c.bytes = v
         \/ /\ c.posted # <<>> /\ c.awaited /\ Said(r, u) # <<>>
            /\ c.bytes = v \o Package(Last(c.posted))
  <2>1. CASE Undecided(c, r, m, u, v)
    BY <2>1 DEF Undecided
  <2>2. CASE Decided(c, r, m, u, v) /\ c.bytes = v
    BY <2>2 DEF Decided
  <2>3. CASE Decided(c, r, m, u, v) /\ c.bytes # v
    <3> DEFINE p == Package(Last(c.posted))
    <3>1. /\ v # <<>> /\ c.posted # <<>> /\ c.awaited /\ c.bytes = v \o p
          /\ Passing(c, r, m, u, v) /\ Said(r, u) # <<>>
      BY <2>3 DEF Decided
    <3>2. p \in Seq(Bytes)
      BY <1>0, <3>1, PackageType
    <3> HIDE DEF p
    <3>3. Head(v \o p) = Head(v)
      BY <3>1, <3>2
    <3> QED BY <3>1, <3>3 DEF p
  <2> QED BY <1>1, <2>1, <2>2, <2>3
<1> DEFINE u2 == Append(u, b)
           v2 == Tail(v)
           x == u \o v
<1>3. u2 \in Seq(Bytes) /\ v2 \in Seq(Bytes) /\ u2 \o v2 = x /\ x \in Transmissions(r, m)
  <2>1. v = <<b>> \o v2 /\ v2 \in Seq(Bytes)
    BY <1>2
  <2> HIDE DEF v2, b
  <2>2. Append(u, b) \in Seq(Bytes) /\ Append(u, b) \o v2 = u \o (<<b>> \o v2)
    BY <1>0, <2>1, SMTT(30)
  <2> QED BY <1>2, <2>1, <2>2 DEF Passing
<1> HIDE DEF b, w, u2, v2, x
<1>4. /\ After(r, u2) = Reads(After(r, u), b)
      /\ Said(r, u2) = Said(r, u) \o w
      /\ c.ear = After(r, u)
  <2>1. c.ear = After(r, u)
    BY <1>2 DEF Passing
  <2> QED BY <1>0, <2>1, HearingMore DEF u2, w
<1>5. Said(r, u) \in Seq(Verdicts) /\ w \in Seq(Verdicts)
  <2>1. c.ear \in Readers /\ Said(r, u) \in Seq(Verdicts)
    BY <1>0, <1>4, HearingType
  <2> QED BY <1>0, <2>1, ReadsType DEF w
<1>6. PICK t \in Seq(Verdicts) : Said(r, x) = (Said(r, u) \o w) \o t
  <2>1. \E t \in Seq(Verdicts) : Said(r, u2 \o v2) = Said(r, u2) \o t
    BY <1>0, <1>3, SaidGrows
  <2>2. u2 \o v2 = x /\ Said(r, u2) = Said(r, u) \o w
    BY <1>3, <1>4
  <2> QED BY <2>1, <2>2, Zenon
<1>7. ASSUME Said(r, u) \o w # <<>>
      PROVE  /\ Said(r, u) # <<>> => w = <<>>
             /\ Said(r, u) = <<>> => w \in {<<Good(m)>>, <<Bad>>}
  <2> DEFINE s == Said(r, u)
  <2> HIDE DEF s
  <2>1. s \in Seq(Verdicts)
    BY <1>5 DEF s
  <2>2. (s \o w) \o t # <<>>
    <3>1. s \o w \in Seq(Verdicts) /\ s \o w # <<>>
      BY <1>5, <1>7, <2>1 DEF s
    <3> DEFINE y == s \o w
    <3> HIDE DEF y
    <3>2. y \o t # <<>>
      BY <3>1 DEF y
    <3> QED BY <3>2 DEF y
  <2>3. Said(r, x) \in {<<Good(m)>>, <<Bad>>}
    BY <1>3, <1>6, <2>2, AllBear DEF s
  <2>4. Len((s \o w) \o t) = 1
    <3> DEFINE y == Said(r, x)
    <3>1. y \in {<<Good(m)>>, <<Bad>>}
      BY <2>3
    <3>2. (s \o w) \o t = y
      BY <1>6 DEF s
    <3> HIDE DEF y
    <3>3. Len(y) = 1
      BY <3>1
    <3> QED BY <3>2, <3>3
  <2>5. w # <<>> => s = <<>> /\ (s \o w) \o t = w
    BY <1>5, <1>6, <2>1, <2>4, OneSaid
  <2>6. s = <<>> => w # <<>>
    <3>1. <<>> \o <<>> = <<>>
      OBVIOUS
    <3> QED BY <1>7, <3>1 DEF s
  <2> QED BY <1>6, <2>3, <2>5, <2>6 DEF s
<1>8. Passing(d, r, m, u2, v2)
  <2>1. d.ear = After(r, u2)
    BY <1>4 DEF b
  <2>2. ~d.struck /\ v2 # <<>> => x = Package(m)
    <3>1. v2 # <<>> => d.bytes # <<>>
      <4>1. CASE c.bytes = v
        BY <4>1 DEF v2
      <4>2. CASE c.bytes # v
        <5> DEFINE p == Package(Last(c.posted))
        <5>1. c.bytes = v \o p /\ p \in Seq(Bytes)
          BY <1>0, <1>2, <4>2, PackageType
        <5> HIDE DEF p
        <5>2. Tail(v \o p) = Tail(v) \o p
          BY <1>2, <5>1
        <5>3. d.bytes = v2 \o p
          BY <5>1, <5>2 DEF v2
        <5>4. v2 # <<>> => v2 \o p # <<>>
          BY <1>3, <5>1
        <5> QED BY <5>3, <5>4
      <4> QED BY <4>1, <4>2
    <3> QED BY <1>2, <3>1 DEF Passing, x
  <2>3. d.faults = 0 => r = FreshReader /\ x = Package(m)
    BY <1>2 DEF Passing, x
  <2> QED BY <1>3, <2>1, <2>2, <2>3 DEF Passing
<1>9. CASE Said(r, u) = <<>>
  <2>1. c.bytes = v /\ d.bytes = v2 /\ Undecided(c, r, m, u, v)
    BY <1>1, <1>2, <1>9 DEF v2, Decided
  <2>2. Said(r, u2) = w
    <3>1. <<>> \o w = w
      BY <1>5
    <3> QED BY <1>4, <1>9, <3>1
  <2>3. CASE w = <<>>
    <3>1. Undecided(d, r, m, u2, v2)
      BY <1>8, <2>1, <2>2, <2>3 DEF Undecided, w, b
    <3> QED BY <1>3, <2>3, <3>1 DEF Track, w, b
  <2>4. CASE w # <<>>
    <3>1. Decided(d, r, m, u2, v2)
      BY <1>8, <2>1, <2>2, <2>4 DEF Decided
    <3>2. w \in {<<Good(m)>>, <<Bad>>}
      BY <1>4, <1>7, <1>9, <2>2, <2>4
    <3>3. c.awaited /\ c.posted # <<>> /\ m = Last(c.posted)
      BY <2>1 DEF Undecided
    <3> QED BY <1>3, <3>1, <3>2, <3>3 DEF Track, w, b
  <2> QED BY <2>3, <2>4
<1>10. CASE Said(r, u) # <<>>
  <2>1. w = <<>> /\ Said(r, u2) = Said(r, u)
    <3>1. Said(r, u) \o w # <<>>
      BY <1>5, <1>10
    <3>2. w = <<>>
      BY <1>7, <1>10, <3>1
    <3>3. Said(r, u) \o <<>> = Said(r, u)
      BY <1>5
    <3> QED BY <1>4, <3>2, <3>3
  <2>2. d.awaited = c.awaited
    BY <2>1 DEF w, b
  <2>3. CASE c.bytes = v
    <3>1. Decided(d, r, m, u2, v2)
      BY <1>8, <1>10, <2>1, <2>3 DEF Decided, v2
    <3> QED BY <1>3, <2>1, <3>1 DEF Track, w, b
  <2>4. CASE c.bytes # v
    <3> DEFINE p == Package(Last(c.posted))
    <3>1. /\ c.bytes = v \o p /\ p \in Seq(Bytes) /\ c.awaited /\ c.posted # <<>>
          /\ Last(c.posted) \in Messages
      BY <1>0, <1>2, <2>4, PackageType
    <3> HIDE DEF p
    <3>2. d.bytes = v2 \o p
      <4>1. Tail(v \o p) = Tail(v) \o p
        BY <1>2, <3>1
      <4> QED BY <3>1, <4>1 DEF v2
    <3>3. CASE v2 # <<>>
      <4>1. Decided(d, r, m, u2, v2)
        BY <1>8, <1>10, <2>1, <2>2, <3>1, <3>2, <3>3 DEF Decided, p
      <4> QED BY <1>3, <2>1, <4>1 DEF Track, w, b
    <3>4. CASE v2 = <<>>
      <4>1. u2 = x /\ d.bytes = p
        <5>1. u2 \o <<>> = u2 /\ <<>> \o p = p
          BY <1>3, <3>1
        <5> QED BY <1>3, <3>2, <3>4, <5>1
      <4>2. /\ d.posted # <<>> /\ Last(d.posted) \in Messages /\ d.awaited
            /\ d.bytes = Package(Last(d.posted)) /\ Said(r, x) # <<>> /\ d.ear = After(r, x)
            /\ d.faults = 0 => r = FreshReader /\ x = Package(m)
        BY <1>3, <1>8, <1>10, <2>1, <2>2, <3>1, <4>1 DEF Passing, p
      <4>3. Track(S, d)
        BY <1>3, <4>2, TrackAfter
      <4> QED BY <2>1, <4>3 DEF w, b
    <3> QED BY <3>3, <3>4
  <2> QED BY <2>3, <2>4
<1> QED BY <1>9, <1>10

LEMMA HeadHit ==
  ASSUME NEW T, NEW v \in Seq(T), v # <<>>, NEW p \in Seq(T), NEW b \in T
  PROVE  [v \o p EXCEPT ![1] = b] = [v EXCEPT ![1] = b] \o p
<1> DEFINE n == Len(v)
           k == Len(p)
           y == [v EXCEPT ![1] = b]
           l == [v \o p EXCEPT ![1] = b]
<1>1. n \in Nat \ {0} /\ k \in Nat /\ 1 \in 1..n
  OBVIOUS
<1>2. y \in Seq(T) /\ Len(y) = n /\ \A i \in 1..n : y[i] = IF i = 1 THEN b ELSE v[i]
  BY <1>1, ExceptAt
<1>3. /\ v \o p \in Seq(T) /\ Len(v \o p) = n + k
      /\ \A i \in 1..(n + k) : (v \o p)[i] = IF i <= n THEN v[i] ELSE p[i - n]
  BY CatAt
<1>4. l \in Seq(T) /\ Len(l) = n + k /\ \A i \in 1..(n + k) : l[i] = IF i = 1 THEN b ELSE (v \o p)[i]
  <2> DEFINE x == v \o p
  <2>1. 1 \in 1..Len(x) /\ x \in Seq(T)
    BY <1>1, <1>3
  <2> HIDE DEF x
  <2>2. /\ [x EXCEPT ![1] = b] \in Seq(T) /\ Len([x EXCEPT ![1] = b]) = Len(x)
        /\ \A i \in 1..Len(x) : [x EXCEPT ![1] = b][i] = IF i = 1 THEN b ELSE x[i]
    BY <2>1, ExceptAt
  <2> QED BY <1>3, <2>2 DEF x
<1> HIDE DEF y, l, n, k
<1>5. /\ y \o p \in Seq(T) /\ Len(y \o p) = n + k
      /\ \A i \in 1..(n + k) : (y \o p)[i] = IF i <= n THEN y[i] ELSE p[i - n]
  <2>1. Len(p) = k /\ Len(y) = n /\ y \in Seq(T)
    BY <1>2 DEF k
  <2> QED BY <2>1, CatAt
<1>6. ASSUME NEW i \in 1..(n + k) PROVE l[i] = (y \o p)[i]
  <2>1. CASE i <= n
    <3>1. i \in 1..n
      BY <1>1, <2>1
    <3> QED BY <1>2, <1>3, <1>4, <1>5, <2>1, <3>1
  <2>2. CASE ~(i <= n)
    <3>1. i # 1
      BY <1>1, <2>2
    <3> QED BY <1>3, <1>4, <1>5, <2>2, <3>1
  <2> QED BY <2>1, <2>2
<1> DEFINE z == y \o p
<1>7. z \in Seq(T) /\ Len(z) = Len(l) /\ \A i \in 1..Len(l) : l[i] = z[i]
  BY <1>4, <1>5, <1>6
<1> HIDE DEF z
<1>8. l = z
  BY <1>4, <1>7
<1> QED BY <1>8 DEF l, z, y

\* A fault strikes the next byte.
LEMMA TrackStruck ==
  ASSUME NEW S, Calm(S), NEW c, NEW d, Track(S, c),
         c.bytes \in Seq(Bytes), c.bytes # <<>>, c.posted # <<>> => Last(c.posted) \in Messages,
         ~c.struck, d.struck <=> d.bytes # <<>>, d.faults # 0,
         d.ear = c.ear, d.posted = c.posted, d.awaited = c.awaited, d.tob = c.tob,
         \/ "lose" \in FaultKinds /\ d.bytes = Tail(c.bytes)
         \/ /\ "damage" \in FaultKinds /\ c.faults = 0
            /\ \E b \in Noise : d.bytes = [c.bytes EXCEPT ![1] = b]
  PROVE  Track(S, d)
<1>0. settings \in Settings
  BY DEF Calm
<1>1. PICK r \in S \cap Readers, m \in Messages, u \in Seq(Bytes), v \in Seq(Bytes) :
        Undecided(c, r, m, u, v) \/ Decided(c, r, m, u, v)
  BY DEF Track, Resting
<1>2. v # <<>> /\ Passing(c, r, m, u, v)
  BY <1>1 DEF Undecided, Decided
<1>3. u \o v = Package(m) /\ (c.faults = 0 => r = FreshReader)
  BY <1>2 DEF Passing
<1> DEFINE p == Package(Last(c.posted))
<1>4. PICK v2 \in Seq(Bytes) :
        /\ u \o v2 \in Transmissions(r, m)
        /\ c.bytes = v => d.bytes = v2
        /\ c.posted # <<>> /\ c.bytes = v \o p => d.bytes = v2 \o p
  <2>0. c.posted # <<>> => p \in Seq(Bytes)
    BY <1>0, PackageType
  <2> HIDE DEF p
  <2>1. CASE "lose" \in FaultKinds /\ d.bytes = Tail(c.bytes)
    <3>1. Tail(v) \in Seq(Bytes) /\ u \o Tail(v) \in Transmissions(r, m)
      BY <1>0, <1>2, <1>3, <2>1, LostOrDamaged
    <3>2. c.posted # <<>> => Tail(v \o p) = Tail(v) \o p
      BY <1>2, <2>0
    <3> QED BY <2>1, <3>1, <3>2, ZenonT(30)
  <2>2. ASSUME "damage" \in FaultKinds, c.faults = 0,
               NEW b \in Noise, d.bytes = [c.bytes EXCEPT ![1] = b]
        PROVE  \E y \in Seq(Bytes) :
                 /\ u \o y \in Transmissions(r, m)
                 /\ c.bytes = v => d.bytes = y
                 /\ c.posted # <<>> /\ c.bytes = v \o p => d.bytes = y \o p
    <3> DEFINE y == [v EXCEPT ![1] = b]
    <3>1. y \in Seq(Bytes) /\ u \o y \in Transmissions(r, m)
      BY <1>0, <1>2, <1>3, <2>2, LostOrDamaged
    <3>2. c.posted # <<>> => [v \o p EXCEPT ![1] = b] = y \o p
      <4> SUFFICES ASSUME c.posted # <<>> PROVE [v \o p EXCEPT ![1] = b] = y \o p
        OBVIOUS
      <4>1. b \in Bytes
        BY AuxAssumption
      <4> QED BY <1>2, <2>0, <4>1, HeadHit
    <3>3. c.bytes = v => d.bytes = y
      BY <2>2
    <3>4. c.posted # <<>> /\ c.bytes = v \o p => d.bytes = y \o p
      BY <2>2, <3>2
    <3> HIDE DEF y
    <3> QED BY <3>1, <3>3, <3>4
  <2> QED BY <2>1, <2>2
<1>5. Passing(d, r, m, u, v2)
  <2>1. ~d.struck => v2 = <<>>
    <3>1. CASE c.bytes = v
      BY <1>4, <3>1
    <3>2. CASE c.bytes # v
      <4>1. c.posted # <<>> /\ c.bytes = v \o p /\ p \in Seq(Bytes)
        BY <1>0, <1>1, <3>2, PackageType DEF Undecided, Decided
      <4> HIDE DEF p
      <4>2. d.bytes = v2 \o p
        BY <1>4, <4>1
      <4>3. v2 \o p = <<>> => v2 = <<>>
        BY <4>1
      <4> QED BY <4>2, <4>3
    <3> QED BY <3>1, <3>2
  <2> QED BY <1>2, <1>4, <2>1 DEF Passing
<1>6. CASE Undecided(c, r, m, u, v)
  <2>1. Undecided(d, r, m, u, v2)
    BY <1>2, <1>4, <1>5, <1>6 DEF Undecided
  <2> QED BY <2>1 DEF Track
<1>7. CASE Decided(c, r, m, u, v) /\ c.bytes = v
  <2>1. Decided(d, r, m, u, v2)
    BY <1>4, <1>5, <1>7 DEF Decided
  <2> QED BY <2>1 DEF Track
<1>8. CASE Decided(c, r, m, u, v) /\ c.bytes # v
  <2>1. /\ c.posted # <<>> /\ c.awaited /\ c.bytes = v \o p /\ Said(r, u) # <<>> /\ ~c.tob
        /\ d.bytes = v2 \o p /\ p \in Seq(Bytes) /\ Last(c.posted) \in Messages
    BY <1>0, <1>4, <1>8, PackageType DEF Decided
  <2>2. CASE v2 # <<>>
    <3>1. Decided(d, r, m, u, v2)
      BY <1>5, <2>1, <2>2 DEF Decided
    <3> QED BY <3>1 DEF Track
  <2>3. CASE v2 = <<>>
    <3> HIDE DEF p
    <3>1. u \o v2 = u /\ d.bytes = p
      BY <2>1, <2>3
    <3>2. u \in Transmissions(r, m) /\ d.ear = After(r, u)
      BY <1>5, <3>1 DEF Passing
    <3>3. /\ d.posted # <<>> /\ Last(d.posted) \in Messages /\ d.awaited
          /\ d.bytes = Package(Last(d.posted))
      BY <2>1, <3>1 DEF p
    <3>4. Said(r, u) # <<>>
      BY <2>1
    <3>5. d.faults = 0 => r = FreshReader /\ u = Package(m)
      OBVIOUS
    <3> QED BY <3>2, <3>3, <3>4, <3>5, TrackAfter
  <2> QED BY <2>2, <2>3
<1> QED BY <1>1, <1>6, <1>7, <1>8

----------------------------------------------------------------------------
\* The inductive invariant of the link from A to B.

Sender == port["A"]

Receiver == port["B"]

Latest == Last(posted["A"])

\* The receiver's application has the message and will have it acknowledged.
Owed == ackMode /\ app["B"] = "ready"

AckOnWay == line["A"] = <<ACK>> \/ Owed

Awaited ==
  Sender.state = "WAIT_ACK" /\ line["A"] = <<>> /\ ~Owed /\ app["A"] # "again"

Channel ==
  [ear |-> Reader(Receiver), bytes |-> line["B"], struck |-> hit["B"], faults |-> faults,
   posted |-> posted["A"], awaited |-> Awaited, tob |-> due["B"] = "tob"]

\* What the sender is at follows from what its application is at.
SenderSure ==
  /\ app["A"] \in {"talk", "wait", "again"}
  /\ Sender.state \in {"IDLE", "WAIT_ACK"} /\ ~Sender.rxFlag /\ due["A"] # "tob"
  /\ app["A"] \in {"wait", "again"} <=> outcome["A"] = "pending"
  /\ app["A"] \in {"wait", "again"} =>
       Sender.status = "BUSY" /\ posted["A"] # <<>> /\ Sender.tx = Package(Latest)
  /\ app["A"] = "talk" => Sender.state = "IDLE" /\ Sender.status # "ERROR"

ReceiverSure ==
  /\ app["B"] \in {"listen", "ready"} /\ due["B"] \notin {"resend", "clear", "set"}
  /\ Receiver.state # "WAIT_ACK" /\ BufOK(Receiver)
  /\ app["B"] = "ready" => Receiver.len > 0

\* One answer is under way, to a sender that waits for it. The timer thread has decided to
\* send again only where nothing is, and not while the other thread sends again.
LineSure ==
  /\ line["A"] # <<>> => Len(line["A"]) = 1 /\ line["A"][1] # SOH /\ ~Owed
  /\ line["A"] # <<>> \/ Owed => Sender.state = "WAIT_ACK" /\ app["A"] # "again"
  /\ app["A"] = "again" => Sender.state = "WAIT_ACK" /\ due["A"] = "none"
  /\ due["A"] \in {"resend", "clear", "set"} =>
       /\ Sender.state = "WAIT_ACK" /\ line["A"] = <<>> /\ app["B"] # "ready"
       /\ line["B"] = <<>> /\ Reader(Receiver) = FreshReader

\* A message is acknowledged once it has arrived, and each arrival that is not followed by
\* its acknowledgement has a fault to pay for it.
Credit ==
  /\ AckOnWay => rcvd["B"] # <<>> /\ Last(rcvd["B"]) = Latest
  /\ Len(rcvd["B"]) + (IF outcome["A"] = "pending" /\ ~AckOnWay THEN 1 ELSE 0)
       <= Len(posted["A"]) + faults

LinkOK ==
  SenderSure /\ ReceiverSure /\ LineSure /\ Credit /\ \E S : Calm(S) /\ Track(S, Channel)

LinkInv ==
  /\ AuxInv /\ OneWay /\ posted \in [Ends -> Seq(Messages)]
  /\ Reliable => LinkOK /\ rcvd["A"] = <<>>

LEMMA SameTrack ==
  ASSUME UNCHANGED settings, NEW S
  PROVE  /\ \A c : Track(S, c)' = Track(S, c)
         /\ Calm(S)' = Calm(S)
         /\ Reader(Receiver)' = Reader(Receiver')
         /\ \A m : Package(m)' = Package(m)
<1>1. mode' = mode
  BY DEF settings
<1>2. \A m : Package(m)' = Package(m)
  BY <1>1, SameReads
<1>3. \A r, u : Hearing(r, u)' = Hearing(r, u)
  BY <1>1, SameHearing
<1>4. \A r, m : Transmissions(r, m)' = Transmissions(r, m)
  BY <1>2 DEF Transmissions
<1>5. \A r, m, x : Bears(r, m, x, S)' = Bears(r, m, x, S)
  BY <1>3 DEF Bears, Said, After
<1>6. LenStates' = LenStates
  BY <1>1, SameReads
<1>7. Harmless(S)' = Harmless(S) /\ Fits' = Fits
  BY <1>2, <1>4, <1>5, <1>6 DEF Harmless, Fits
<1>8. Calm(S)' = Calm(S)
  BY <1>1, <1>7 DEF Calm, settings
<1>9. \A c, r, m, u, v : Passing(c, r, m, u, v)' = Passing(c, r, m, u, v)
  BY <1>2, <1>3, <1>4 DEF Passing, After
<1>10. \A c, r, m, u, v : Undecided(c, r, m, u, v)' = Undecided(c, r, m, u, v)
  BY <1>3, <1>9 DEF Undecided, Said
<1>11. \A c, r, m, u, v : Decided(c, r, m, u, v)' = Decided(c, r, m, u, v)
  BY <1>2, <1>3, <1>9 DEF Decided, Said
<1>12. \A c : Track(S, c)' = Track(S, c)
  BY <1>10, <1>11 DEF Track, Resting, Readers
<1>13. Reader(Receiver)' = Reader(Receiver')
  BY DEF Reader, Restart, FreshReader, FreshPort, Receiver
<1> QED BY <1>2, <1>8, <1>12, <1>13

LEMMA LastAppend ==
  ASSUME NEW T, NEW s \in Seq(T), NEW x \in T
  PROVE  /\ Append(s, x) \in Seq(T) /\ Append(s, x) # <<>>
         /\ Last(Append(s, x)) = x /\ Len(Append(s, x)) = Len(s) + 1
BY DEF Last

LEMMA LastIn ==
  ASSUME NEW T, NEW s \in Seq(T), s # <<>>
  PROVE  Last(s) \in T /\ Len(s) \in Nat \ {0}
BY DEF Last

\* What a step has to show of the link.
LEMMA LinkNext ==
  ASSUME LinkInv, Reliable, UNCHANGED settings,
         SenderSure', ReceiverSure', LineSure', Credit',
         \A S : Calm(S) /\ Track(S, Channel) => Track(S, Channel')
  PROVE  LinkOK'
<1>1. PICK S : Calm(S) /\ Track(S, Channel)
  BY DEF LinkInv, LinkOK
<1>2. Track(S, Channel')
  BY <1>1
<1>3. Calm(S)' /\ Track(S, Channel)'
  BY <1>1, <1>2, SameTrack
<1> QED BY <1>3 DEF LinkOK

LEMMA ChannelNow ==
  /\ Channel.ear = Reader(port["B"]) /\ Channel.bytes = line["B"] /\ Channel.struck = hit["B"]
  /\ Channel.faults = faults /\ Channel.posted = posted["A"]
  /\ Channel.awaited = Awaited /\ Channel.tob = (due["B"] = "tob")
BY DEF Channel, Receiver

LEMMA ChannelNext ==
  /\ Channel'.ear = Reader(port'["B"]) /\ Channel'.bytes = line'["B"] /\ Channel'.struck = hit'["B"]
  /\ Channel'.faults = faults' /\ Channel'.posted = posted'["A"]
  /\ Channel'.awaited = Awaited' /\ Channel'.tob = (due'["B"] = "tob")
<1>1. Reader(port["B"])' = Reader(port'["B"])
  BY DEF Reader, Restart, FreshReader, FreshPort
<1> QED BY <1>1 DEF Channel, Receiver

\* What the invariant says of a link that is reliable.
LEMMA LinkFacts ==
  ASSUME LinkInv, Reliable
  PROVE  /\ AuxTyped /\ posted \in [Ends -> Seq(Messages)] /\ settings \in Settings
         /\ mode # "STX" /\ timing = "timely" /\ refusals = 0
         /\ Talkers = {"A"} /\ Acks = 1
         /\ PortOK(port["A"]) /\ PortOK(port["B"])
         /\ port["A"].len = 0 /\ (port["B"].len > 0 <=> app["B"] = "ready")
         /\ port["B"].len \in Nat
         /\ port["B"].len > 0 => ~port["B"].rxFlag /\ due["B"] # "tob"
         /\ SenderSure /\ ReceiverSure /\ LineSure /\ Credit
         /\ posted["A"] # <<>> => Last(posted["A"]) \in Messages
         /\ "A" \in Ends /\ "B" \in Ends /\ Other("A") = "B" /\ Other("B") = "A"
<1>1. /\ AuxInv /\ OneWay /\ posted \in [Ends -> Seq(Messages)] /\ LinkOK
      /\ mode # "STX" /\ timing = "timely" /\ refusals = 0
  BY DEF LinkInv, Reliable
<1>2. "A" \in Ends /\ "B" \in Ends /\ Other("A") = "B" /\ Other("B") = "A"
  BY DEF Ends, Other
<1>3. AuxTyped /\ EndOK("A") /\ EndOK("B") /\ KeptEnd("B")
  BY <1>1, <1>2 DEF AuxInv
<1>4. SenderSure /\ ReceiverSure /\ LineSure /\ Credit
  BY <1>1 DEF LinkOK
<1>5. port["A"].len = 0
  BY <1>2, <1>3, <1>4, NotReady DEF SenderSure
<1>6. port["B"].len \in Nat
  BY <1>3 DEF EndOK, PortOK, Ports
<1>7. posted["A"] # <<>> => Last(posted["A"]) \in Messages
  BY <1>1, <1>2, LastIn
<1> QED BY <1>1, <1>2, <1>3, <1>4, <1>5, <1>6, <1>7
        DEF EndOK, KeptEnd, ReceiverSure, Receiver, OneWay, AuxTyped

\* The sender's application has no message for the other end, which has none at all.
LEMMA WhoTalks ==
  ASSUME LinkInv, Reliable, NEW e \in Ends
  PROVE  /\ app[e] = "talk" => e = "A"
         /\ app[e] \in {"wait", "again"} => e = "A"
         /\ app[e] = "listen" => e = "B"
         /\ app[e] = "ready" => e = "B"
<1>1. e = "A" \/ e = "B"
  BY DEF Ends
<1>2. SenderSure /\ ReceiverSure
  BY LinkFacts
<1> QED BY <1>1, <1>2 DEF SenderSure, ReceiverSure

\* The bytes that a port sends, and the port after them.
LEMMA SendPackageDoes ==
  ASSUME NEW p \in Ports, NEW r \in SendPackage(p), r.bytes # <<>>
  PROVE  /\ r.bytes = p.tx /\ r.port.tx = p.tx /\ r.port.state = p.state
         /\ r.port.status = p.status /\ r.port.rxFlag = p.rxFlag
<1>1. \/ r = Sent([p EXCEPT !.nak = FALSE, !.txFlag = TRUE], p.tx)
      \/ r = Sent([p EXCEPT !.nak = FALSE], <<>>)
  BY DEF SendPackage
<1>2. r.port = [p EXCEPT !.nak = FALSE, !.txFlag = TRUE] /\ r.bytes = p.tx
  <2>1. CASE r = Sent([p EXCEPT !.nak = FALSE, !.txFlag = TRUE], p.tx)
    BY <2>1 DEF Sent
  <2>2. CASE r = Sent([p EXCEPT !.nak = FALSE], <<>>)
    BY <2>2 DEF Sent
  <2> QED BY <1>1, <2>1, <2>2
<1> QED BY <1>2 DEF Ports

LEMMA TxStringLink ==
  ASSUME LinkInv, Reliable, Reliable', NEW e \in Ends, NEW m \in Messages, TxString(e, m)
  PROVE  LinkOK'
<1>1. e = "A" /\ Other(e) = "B"
  <2>1. app[e] = "talk"
    BY DEF TxString
  <2> QED BY <2>1, WhoTalks DEF Other
<1> DEFINE p == [port["A"] EXCEPT !.status = "BUSY", !.tx = Package(m),
                                  !.resend = MaxResend, !.state = "WAIT_ACK"]
<1>2. PICK r \in SendPackage(p) :
        /\ port' = [port EXCEPT !["A"] = r.port]
        /\ line' = [line EXCEPT !["B"] = @ \o r.bytes]
        /\ app' = [app EXCEPT !["A"] = IF r.bytes = <<>> THEN "talk" ELSE "wait"]
        /\ outcome' = [outcome EXCEPT !["A"] = IF r.bytes = <<>> THEN "failed" ELSE "pending"]
        /\ refusals' = refusals + IF r.bytes = <<>> THEN 1 ELSE 0
  BY <1>1 DEF TxString, CountRefusal
<1>3. /\ app["A"] = "talk" /\ UNCHANGED settings /\ UNCHANGED <<due, rcvd, got, faults, hit>>
      /\ posted' = [posted EXCEPT !["A"] = Append(@, m)] /\ CanRun("A")
  BY <1>1 DEF TxString
<1>4. r.bytes # <<>>
  BY <1>2, LinkFacts DEF Reliable
<1>5. /\ AuxTyped /\ posted \in [Ends -> Seq(Messages)] /\ port["A"] \in Ports
      /\ "A" \in Ends /\ "B" \in Ends
  BY LinkFacts DEF PortOK
<1>6. Package(m) \in Seq(Bytes) /\ Package(m) # <<>>
  BY LinkFacts, PackageType
<1>7. /\ p \in Ports /\ p.tx = Package(m) /\ p.state = "WAIT_ACK" /\ p.status = "BUSY"
      /\ p.rxFlag = port["A"].rxFlag
  <2>1. MaxResend \in 0..(Counts-1)
    BY AuxAssumption
  <2> HIDE DEF p
  <2> QED BY <1>5, <1>6, <2>1 DEF p, Ports, States
<1> HIDE DEF p
<1>8. /\ r.bytes = Package(m) /\ r.port.tx = Package(m) /\ r.port.state = "WAIT_ACK"
      /\ r.port.status = "BUSY" /\ r.port.rxFlag = port["A"].rxFlag
  BY <1>4, <1>7, SendPackageDoes
<1>9. /\ port'["A"] = r.port /\ port'["B"] = port["B"]
      /\ line'["A"] = line["A"] /\ line'["B"] = line["B"] \o Package(m)
      /\ app'["A"] = "wait" /\ app'["B"] = app["B"] /\ outcome'["A"] = "pending"
      /\ posted'["A"] = Append(posted["A"], m)
  BY <1>2, <1>3, <1>4, <1>5, <1>8 DEF AuxTyped
<1>10. /\ Last(posted'["A"]) = m /\ posted'["A"] # <<>>
       /\ Len(posted'["A"]) = Len(posted["A"]) + 1 /\ Len(posted["A"]) \in Nat
  BY <1>5, <1>9, LastAppend
<1>11. SenderSure /\ ReceiverSure /\ LineSure /\ Credit /\ port["A"].state = "IDLE" /\ due["A"] = "none"
  <2>1. SenderSure /\ ReceiverSure /\ LineSure /\ Credit /\ timing = "timely"
    BY LinkFacts
  <2> QED BY <1>3, <2>1 DEF SenderSure, Sender, CanRun
<1>12. line["A"] = <<>> /\ ~Owed /\ ~Awaited /\ outcome["A"] # "pending"
  BY <1>3, <1>11 DEF LineSure, Sender, SenderSure, Awaited
<1>13. SenderSure'
  <2>1. Package(m)' = Package(m)
    BY <1>3, SameTrack
  <2>2. Package(Latest)' = Package(m)
    <3>1. \A x : Package(x)' = Package(x)
      BY <1>3, SameTrack
    <3> QED BY <1>10, <3>1 DEF Latest
  <2> QED BY <1>3, <1>8, <1>9, <1>10, <1>11, <2>2 DEF SenderSure, Sender
<1>14. Owed' = Owed /\ ReceiverSure'
  BY <1>3, <1>9, <1>11 DEF ReceiverSure, Receiver, Owed, settings, BufOK
<1>15. LineSure'
  BY <1>3, <1>8, <1>9, <1>11, <1>12, <1>14 DEF LineSure, Sender
<1>16. Awaited'
  BY <1>8, <1>9, <1>12, <1>14 DEF Awaited, Sender
<1>17. Credit'
  <2>1. ~AckOnWay /\ ~AckOnWay'
    BY <1>9, <1>12, <1>14 DEF AckOnWay
  <2>2. rcvd["B"] \in Seq(Seq(Bytes)) /\ faults \in Nat
    BY <1>5, LinkFacts, SettingsFacts DEF AuxTyped
  <2>3. Len(rcvd["B"]) \in Nat
    BY <2>2
  <2>4. Len(rcvd["B"]) <= Len(posted["A"]) + faults
    BY <1>3, <1>11, <1>12, <2>1 DEF Credit
  <2> QED BY <1>3, <1>9, <1>10, <2>1, <2>2, <2>3, <2>4 DEF Credit
<1>18. ASSUME NEW S, Calm(S), Track(S, Channel) PROVE Track(S, Channel')
  <2>1. Channel'.bytes = Channel.bytes \o Package(Last(Channel'.posted)) /\ Channel.bytes \in Seq(Bytes)
    BY <1>5, <1>9, <1>10, ChannelNow, ChannelNext DEF AuxTyped
  <2>2. ~Channel.awaited /\ Channel'.posted # <<>> /\ Last(Channel'.posted) \in Messages /\ Channel'.awaited
    BY <1>10, <1>12, <1>16, ChannelNow, ChannelNext
  <2>3. Channel'.ear = Channel.ear /\ Channel'.struck = Channel.struck /\ Channel'.faults = Channel.faults
        /\ Channel'.tob = Channel.tob
    BY <1>3, <1>9, ChannelNow, ChannelNext
  <2> QED BY <1>18, <2>1, <2>2, <2>3, TrackSent
<1> QED BY <1>3, <1>13, <1>14, <1>15, <1>17, <1>18, LinkNext

\* A retransmission is written or it is refused.
LEMMA ResendPackageDoes ==
  ASSUME NEW p, PortOK(p), NEW flag \in BOOLEAN, NEW r \in ResendPackage(p, flag), r.bytes # <<>>
  PROVE  /\ r.port \in Ports /\ r.bytes = p.tx /\ r.port.tx = p.tx /\ r.port.state = p.state
         /\ r.port.status = p.status /\ r.port.rxFlag = p.rxFlag
<1> DEFINE n == (p.resend - 1) % Counts
           c == [p EXCEPT !.resend = n]
<1>1. p \in Ports /\ p.resend \in Int
  BY AuxAssumption DEF PortOK, Ports
<1>2. PICK s \in SendPackage(c) : r = Sent([s.port EXCEPT !.nak = flag], s.bytes)
  BY <1>1 DEF ResendPackage, Ports
<1>3. n \in 0..(Counts-1)
  BY <1>1, AuxAssumption
<1> HIDE DEF n
<1>4. /\ c \in Ports /\ c.tx = p.tx /\ c.rxFlag = p.rxFlag /\ c.state = p.state
      /\ c.status = p.status
  BY <1>1, <1>3 DEF Ports
<1> HIDE DEF c
<1>5. r.bytes = s.bytes /\ r.port = [s.port EXCEPT !.nak = flag]
  BY <1>2 DEF Sent
<1>6. /\ s.bytes = c.tx /\ s.port.tx = c.tx /\ s.port.state = c.state
      /\ s.port.status = c.status /\ s.port.rxFlag = c.rxFlag
  BY <1>4, <1>5, SendPackageDoes
<1>7. s.port \in Ports
  <2>1. \/ s = Sent([c EXCEPT !.nak = FALSE, !.txFlag = TRUE], c.tx)
        \/ s = Sent([c EXCEPT !.nak = FALSE], <<>>)
    BY DEF SendPackage
  <2>2. CASE s = Sent([c EXCEPT !.nak = FALSE, !.txFlag = TRUE], c.tx)
    BY <1>4, <2>2 DEF Sent, Ports
  <2>3. CASE s = Sent([c EXCEPT !.nak = FALSE], <<>>)
    BY <1>4, <2>3 DEF Sent, Ports
  <2> QED BY <2>1, <2>2, <2>3
<1>8. /\ r.port \in Ports /\ r.port.tx = s.port.tx /\ r.port.state = s.port.state
      /\ r.port.status = s.port.status /\ r.port.rxFlag = s.port.rxFlag
  BY <1>5, <1>7 DEF Ports
<1> QED BY <1>4, <1>5, <1>6, <1>8

\* A port of which the retransmissions are used up.
LEMMA ExhaustedDoes ==
  ASSUME NEW p \in Ports
  PROVE  /\ Exhausted(p) \in Ports /\ Exhausted(p).tx = p.tx /\ Exhausted(p).rxFlag = p.rxFlag
         /\ Exhausted(p).status = p.status /\ Exhausted(p).state = "IDLE"
BY DEF Exhausted, Ports, States

\* What a sender that waits does with a byte.
LEMMA TakeAnswerDoes ==
  ASSUME NEW p \in Ports, p.state = "WAIT_ACK", p.status = "BUSY",
         NEW b, b # SOH, NEW q, q = TakeAnswer(p, b)
  PROVE  /\ q \in Ports /\ q.tx = p.tx /\ q.rxFlag = p.rxFlag
         /\ b = ACK => ~Resends(p, b) /\ q.status = "FREE" /\ q.state = "IDLE"
         /\ Resends(p, b) => b # ACK /\ q.status = "BUSY" /\ q.state = "WAIT_ACK"
         /\ b # ACK /\ ~Resends(p, b) =>
              \/ q.status = "BUSY" /\ q.state = "WAIT_ACK"
              \/ q.status = "ERROR" /\ q.state = "IDLE"
<1>0. NAK # ACK
  BY DEF ACK, NAK
<1>1. CASE b = ACK
  <2>1. q = [p EXCEPT !.state = "IDLE", !.status = "FREE"]
    BY <1>1 DEF TakeAnswer, Free, ACK, NAK, SOH
  <2>2. "IDLE" \in States
    BY DEF States
  <2>3. ~Resends(p, b)
    BY <1>0, <1>1 DEF Resends
  <2> QED BY <1>1, <2>1, <2>2, <2>3 DEF Ports
<1>2. CASE b # ACK /\ (b # NAK \/ p.nak)
  <2>1. q = [p EXCEPT !.txFlag = TRUE] /\ ~Resends(p, b)
    BY <1>2 DEF TakeAnswer, TakeNak, Resends, ACK, NAK, SOH
  <2> QED BY <1>2, <2>1 DEF Ports
<1>3. CASE b = NAK /\ ~p.nak
  <2> DEFINE c == [p EXCEPT !.nak = TRUE]
  <2>1. /\ q = IF CanResend(p) THEN c ELSE [Exhausted(c) EXCEPT !.status = "ERROR"]
        /\ Resends(p, b) <=> CanResend(p)
    BY <1>3 DEF TakeAnswer, TakeNak, Resends, ACK, NAK, SOH
  <2>2. c \in Ports /\ c.tx = p.tx /\ c.state = p.state /\ c.status = p.status /\ c.rxFlag = p.rxFlag
    BY DEF Ports
  <2> HIDE DEF c
  <2>3. CASE CanResend(p)
    BY <1>0, <1>3, <2>1, <2>2, <2>3
  <2>4. CASE ~CanResend(p)
    <3>1. /\ Exhausted(c) \in Ports /\ Exhausted(c).tx = c.tx /\ Exhausted(c).rxFlag = c.rxFlag
          /\ Exhausted(c).state = "IDLE"
      BY <2>2, ExhaustedDoes
    <3>2. q \in Ports /\ q.tx = c.tx /\ q.rxFlag = c.rxFlag /\ q.status = "ERROR" /\ q.state = "IDLE"
      BY <2>1, <2>4, <3>1 DEF Ports
    <3> QED BY <1>0, <1>3, <2>1, <2>2, <2>4, <3>2
  <2> QED BY <2>3, <2>4
<1> QED BY <1>1, <1>2, <1>3

\* What the application of the only end that talks is told.
LEMMA ToldDoes ==
  ASSUME AuxTyped, Talkers = {"A"}, NEW p \in Ports, Told("A", p)
  PROVE  /\ port'["B"] = port["B"] /\ app'["B"] = app["B"]
         /\ port'["A"].tx = p.tx /\ port'["A"].rxFlag = p.rxFlag /\ port'["A"].state = p.state
         /\ port'["A"].status = (IF p.status = "ERROR" THEN "FREE" ELSE p.status)
         /\ p.status # "ERROR" => port'["A"] = p
         /\ app'["A"] = (IF p.status \in {"FREE", "ERROR"} THEN "talk" ELSE "wait")
         /\ outcome'["A"] = (IF p.status = "FREE" THEN "ok"
                             ELSE IF p.status = "ERROR" THEN "failed" ELSE outcome["A"])
<1>1. "A" \in Ends /\ "B" \in Ends
  BY DEF Ends
<1> DEFINE q == IF p.status = "ERROR" THEN [p EXCEPT !.status = "FREE"] ELSE p
<1>2. port' = [port EXCEPT !["A"] = q]
  BY DEF Told
<1>3. /\ q.tx = p.tx /\ q.rxFlag = p.rxFlag /\ q.state = p.state
      /\ q.status = (IF p.status = "ERROR" THEN "FREE" ELSE p.status)
      /\ p.status # "ERROR" => q = p
  BY DEF Ports
<1> HIDE DEF q
<1>4. port'["A"] = q /\ port'["B"] = port["B"]
  BY <1>1, <1>2 DEF AuxTyped
<1>5. AfterTalk("A") = "talk"
  BY DEF AfterTalk, Other
<1>6. app'["B"] = app["B"] /\ app'["A"] = IF p.status \in {"FREE", "ERROR"} THEN "talk" ELSE "wait"
  BY <1>1, <1>5 DEF Told, AuxTyped
<1>7. outcome'["A"] = IF p.status = "FREE" THEN "ok"
                      ELSE IF p.status = "ERROR" THEN "failed" ELSE outcome["A"]
  BY <1>1 DEF Told, AuxTyped
<1> QED BY <1>3, <1>4, <1>6, <1>7

\* What the poll of a sender does to the link.
LEMMA TxReadyView ==
  ASSUME LinkInv, Reliable, NEW e \in Ends, TxReady(e)
  PROVE  /\ e = "A" /\ UNCHANGED settings
         /\ app["A"] = "wait" /\ outcome["A"] = "pending" /\ due["A"] = "none"
         /\ UNCHANGED <<due, posted, rcvd, got, faults>>
         /\ port'["B"] = port["B"] /\ app'["B"] = app["B"] /\ hit'["B"] = hit["B"]
         /\ port'["A"].tx = port["A"].tx /\ port'["A"].rxFlag = port["A"].rxFlag
         /\ line'["A"] = <<>> /\ line'["B"] = line["B"]
         /\ \/ /\ line["A"] = <<>>
               /\ port'["A"] = port["A"] /\ app'["A"] = "wait" /\ outcome'["A"] = "pending"
            \/ /\ line["A"] = <<ACK>>
               /\ port'["A"].status = "FREE" /\ port'["A"].state = "IDLE"
               /\ app'["A"] = "talk" /\ outcome'["A"] = "ok"
            \/ /\ line["A"] # <<>> /\ line["A"] # <<ACK>>
               /\ port'["A"].status = "BUSY" /\ port'["A"].state = "WAIT_ACK"
               /\ app'["A"] \in {"wait", "again"} /\ outcome'["A"] = "pending"
            \/ /\ line["A"] # <<>> /\ line["A"] # <<ACK>>
               /\ port'["A"].status = "FREE" /\ port'["A"].state = "IDLE"
               /\ app'["A"] = "talk" /\ outcome'["A"] = "failed"
<1>1. e = "A"
  <2>1. app[e] = "wait"
    BY DEF TxReady
  <2> QED BY <2>1, WhoTalks
<1> DEFINE p == port["A"]
           q == IF line["A"] = <<>> THEN p ELSE TakeAnswer(p, line["A"][1])
           again == line["A"] # <<>> /\ Resends(p, line["A"][1])
<1>2. /\ again => /\ port' = [port EXCEPT !["A"] = q] /\ app' = [app EXCEPT !["A"] = "again"]
                  /\ UNCHANGED outcome
      /\ ~again => Told("A", q)
  BY <1>1 DEF TxReady
<1>3. /\ app["A"] = "wait" /\ CanRun("A") /\ UNCHANGED settings
      /\ UNCHANGED <<due, posted, rcvd, got, faults>>
      /\ hit' = [hit EXCEPT !["A"] = @ /\ line'["A"] # <<>>]
      /\ line' = [line EXCEPT !["A"] = SubSeq(@, Taken("A") + 1, Len(@))]
  BY <1>1 DEF TxReady
<1>4. /\ AuxTyped /\ "A" \in Ends /\ "B" \in Ends /\ p \in Ports
      /\ SenderSure /\ LineSure /\ Talkers = {"A"} /\ timing = "timely"
      /\ settings \in Settings /\ line["A"] \in Seq(Bytes) /\ line["B"] \in Seq(Bytes)
  BY LinkFacts DEF PortOK, AuxTyped
<1>5. /\ outcome["A"] = "pending" /\ p.status = "BUSY" /\ due["A"] = "none"
  BY <1>3, <1>4 DEF SenderSure, Sender, CanRun
<1>6. /\ line["A"] = <<>> => q = p /\ ~again
      /\ line["A"] # <<>> =>
           /\ p.state = "WAIT_ACK" /\ Len(line["A"]) = 1 /\ line["A"] = <<line["A"][1]>>
           /\ q \in Ports /\ q.tx = p.tx /\ q.rxFlag = p.rxFlag
           /\ line["A"][1] = ACK => ~again /\ q.status = "FREE" /\ q.state = "IDLE"
           /\ again => line["A"][1] # ACK /\ q.status = "BUSY" /\ q.state = "WAIT_ACK"
           /\ line["A"][1] # ACK /\ ~again =>
                \/ q.status = "BUSY" /\ q.state = "WAIT_ACK"
                \/ q.status = "ERROR" /\ q.state = "IDLE"
  <2>1. CASE line["A"] = <<>>
    BY <2>1
  <2>2. CASE line["A"] # <<>>
    <3>1. p.state = "WAIT_ACK" /\ Len(line["A"]) = 1 /\ line["A"][1] # SOH
      BY <1>4, <2>2 DEF LineSure, Sender
    <3>2. line["A"] = <<line["A"][1]>>
      BY <1>4, <3>1
    <3>3. q = TakeAnswer(p, line["A"][1]) /\ (again <=> Resends(p, line["A"][1]))
      BY <2>2
    <3> HIDE DEF p, q, again
    <3> QED BY <1>4, <1>5, <2>2, <3>1, <3>2, <3>3, TakeAnswerDoes
  <2> QED BY <2>1, <2>2
<1> HIDE DEF q, again
<1>7. line'["A"] = <<>> /\ line'["B"] = line["B"] /\ hit'["B"] = hit["B"]
  <2> DEFINE rest == SubSeq(line["A"], Taken("A") + 1, Len(line["A"]))
  <2>1. rest = <<>>
    <3>1. CASE line["A"] = <<>>
      <4>1. Taken("A") = 0 /\ Len(line["A"]) = 0
        BY <3>1 DEF Taken
      <4>2. SubSeq(line["A"], 1, 0) = <<>>
        BY <3>1
      <4> QED BY <4>1, <4>2
    <3>2. CASE line["A"] # <<>>
      <4>1. Taken("A") = 1 /\ Len(line["A"]) = 1
        BY <1>6, <3>2 DEF Taken
      <4>2. SubSeq(line["A"], 2, 1) = <<>>
        BY <1>4
      <4> QED BY <4>1, <4>2
    <3> QED BY <3>1, <3>2
  <2>2. line' = [line EXCEPT !["A"] = rest]
    BY <1>3
  <2> HIDE DEF rest
  <2> QED BY <1>3, <1>4, <2>1, <2>2 DEF AuxTyped
<1>8. q \in Ports /\ q.tx = p.tx /\ q.rxFlag = p.rxFlag
  BY <1>4, <1>6
<1>9. CASE again
  <2>1. /\ port'["A"] = q /\ port'["B"] = port["B"] /\ app'["A"] = "again" /\ app'["B"] = app["B"]
        /\ outcome'["A"] = "pending"
    BY <1>2, <1>4, <1>5, <1>9 DEF AuxTyped
  <2>2. line["A"] # <<>> /\ line["A"] # <<ACK>> /\ q.status = "BUSY" /\ q.state = "WAIT_ACK"
    <3>1. line["A"] # <<>> /\ line["A"][1] # ACK /\ q.status = "BUSY" /\ q.state = "WAIT_ACK"
      BY <1>6, <1>9
    <3>2. <<ACK>>[1] = ACK
      OBVIOUS
    <3> QED BY <3>1, <3>2
  <2> QED BY <1>1, <1>3, <1>5, <1>7, <1>8, <2>1, <2>2
<1>10. CASE ~again
  <2> HIDE DEF p
  <2>1. /\ port'["B"] = port["B"] /\ app'["B"] = app["B"]
        /\ port'["A"].tx = q.tx /\ port'["A"].rxFlag = q.rxFlag /\ port'["A"].state = q.state
        /\ port'["A"].status = (IF q.status = "ERROR" THEN "FREE" ELSE q.status)
        /\ q.status # "ERROR" => port'["A"] = q
        /\ app'["A"] = (IF q.status \in {"FREE", "ERROR"} THEN "talk" ELSE "wait")
        /\ outcome'["A"] = (IF q.status = "FREE" THEN "ok"
                            ELSE IF q.status = "ERROR" THEN "failed" ELSE "pending")
    BY <1>2, <1>4, <1>5, <1>8, <1>10, ToldDoes
  <2>2. CASE line["A"] = <<>>
    <3>1. q = p /\ q.status = "BUSY"
      BY <1>5, <1>6, <2>2
    <3> QED BY <1>1, <1>3, <1>5, <1>7, <1>8, <2>1, <2>2, <3>1 DEF p
  <2>3. CASE line["A"] # <<>> /\ line["A"][1] = ACK
    <3>1. line["A"] = <<ACK>> /\ q.status = "FREE" /\ q.state = "IDLE"
      BY <1>6, <2>3
    <3> QED BY <1>1, <1>3, <1>5, <1>7, <1>8, <2>1, <2>3, <3>1 DEF p
  <2>4. CASE line["A"] # <<>> /\ line["A"][1] # ACK
    <3>1. line["A"] # <<ACK>>
      <4>1. <<ACK>>[1] = ACK
        OBVIOUS
      <4> QED BY <2>4, <4>1
    <3>2. \/ q.status = "BUSY" /\ q.state = "WAIT_ACK"
          \/ q.status = "ERROR" /\ q.state = "IDLE"
      BY <1>6, <1>10, <2>4
    <3>3. CASE q.status = "BUSY" /\ q.state = "WAIT_ACK"
      BY <1>1, <1>3, <1>5, <1>7, <1>8, <2>1, <2>4, <3>1, <3>3 DEF p
    <3>4. CASE q.status = "ERROR" /\ q.state = "IDLE"
      BY <1>1, <1>3, <1>5, <1>7, <1>8, <2>1, <2>4, <3>1, <3>4 DEF p
    <3> QED BY <3>2, <3>3, <3>4
  <2> QED BY <2>2, <2>3, <2>4
<1> QED BY <1>9, <1>10

\* A step that leaves the receiver and what is on its way to it alone, and does not make
\* an answer of it.
LEMMA ChannelKept ==
  ASSUME port'["B"] = port["B"], line'["B"] = line["B"], hit'["B"] = hit["B"],
         posted'["A"] = posted["A"], faults' = 0 => faults = 0, Awaited => Awaited',
         due'["B"] = "tob" => due["B"] = "tob" \/ line["B"] = <<>>,
         NEW S, Track(S, Channel)
  PROVE  Track(S, Channel')
<1>1. /\ Channel'.ear = Channel.ear /\ Channel'.bytes = Channel.bytes /\ Channel'.struck = Channel.struck
      /\ Channel'.posted = Channel.posted
  BY ChannelNow, ChannelNext
<1>2. /\ Channel'.faults = 0 => Channel.faults = 0
      /\ Channel.awaited => Channel'.awaited
      /\ Channel'.tob => Channel.tob \/ Channel.bytes = <<>>
  BY ChannelNow, ChannelNext
<1> QED BY <1>1, <1>2, TrackKept

LEMMA CreditNats ==
  ASSUME LinkInv, Reliable
  PROVE  Len(rcvd["B"]) \in Nat /\ Len(posted["A"]) \in Nat /\ faults \in Nat
<1>1. /\ AuxTyped /\ posted \in [Ends -> Seq(Messages)] /\ settings \in Settings
      /\ "A" \in Ends /\ "B" \in Ends
  BY LinkFacts
<1>2. rcvd["B"] \in Seq(Seq(Bytes)) /\ posted["A"] \in Seq(Messages)
  BY <1>1 DEF AuxTyped
<1>3. faults \in Nat
  BY <1>1, SettingsFacts DEF AuxTyped
<1> QED BY <1>2, <1>3

\* A step at which nothing is posted and nothing arrives: an acknowledgement that is lost
\* is paid for by its fault.
LEMMA CreditKept ==
  ASSUME LinkInv, Reliable, rcvd'["B"] = rcvd["B"], posted'["A"] = posted["A"],
         AckOnWay' => AckOnWay,
         \/ /\ faults' = faults
            /\ outcome'["A"] = "pending" /\ ~AckOnWay' => outcome["A"] = "pending" /\ ~AckOnWay
         \/ faults' = faults + 1
  PROVE  Credit'
<1>1. Credit
  BY LinkFacts
<1>2. Len(rcvd["B"]) \in Nat /\ Len(posted["A"]) \in Nat /\ faults \in Nat
  BY CreditNats
<1>3. Latest' = Latest
  BY DEF Latest
<1>4. AckOnWay' => rcvd'["B"] # <<>> /\ Last(rcvd'["B"]) = Latest'
  BY <1>1, <1>3 DEF Credit
<1>5. Len(rcvd["B"]) + (IF outcome["A"] = "pending" /\ ~AckOnWay THEN 1 ELSE 0) <= Len(posted["A"]) + faults
  BY <1>1 DEF Credit
<1>6. Len(rcvd["B"]) + (IF outcome'["A"] = "pending" /\ ~AckOnWay' THEN 1 ELSE 0) <= Len(posted["A"]) + faults'
  <2> DEFINE owes == IF outcome["A"] = "pending" /\ ~AckOnWay THEN 1 ELSE 0
             owed == IF outcome'["A"] = "pending" /\ ~AckOnWay' THEN 1 ELSE 0
             n == Len(rcvd["B"])
             k == Len(posted["A"])
  <2>1. owes \in {0, 1} /\ owed \in {0, 1}
    OBVIOUS
  <2>2. (faults' = faults /\ (owed = 1 => owes = 1)) \/ faults' = faults + 1
    OBVIOUS
  <2>3. n \in Nat /\ k \in Nat /\ n + owes <= k + faults
    BY <1>2, <1>5
  <2> HIDE DEF owes, owed, n, k
  <2>4. n + owed <= k + faults'
    BY <1>2, <2>1, <2>2, <2>3
  <2> QED BY <2>4 DEF owed, n, k
<1> QED BY <1>4, <1>6 DEF Credit

LEMMA TxReadyLink ==
  ASSUME LinkInv, Reliable, Reliable', NEW e \in Ends, TxReady(e)
  PROVE  LinkOK'
<1>1. /\ UNCHANGED settings /\ app["A"] = "wait" /\ outcome["A"] = "pending" /\ due["A"] = "none"
      /\ UNCHANGED <<due, posted, rcvd, got, faults>>
      /\ port'["B"] = port["B"] /\ app'["B"] = app["B"] /\ hit'["B"] = hit["B"]
      /\ port'["A"].tx = port["A"].tx /\ port'["A"].rxFlag = port["A"].rxFlag
      /\ line'["A"] = <<>> /\ line'["B"] = line["B"]
  BY TxReadyView
<1>2. \/ /\ line["A"] = <<>>
         /\ port'["A"] = port["A"] /\ app'["A"] = "wait" /\ outcome'["A"] = "pending"
      \/ /\ line["A"] = <<ACK>>
         /\ port'["A"].status = "FREE" /\ port'["A"].state = "IDLE"
         /\ app'["A"] = "talk" /\ outcome'["A"] = "ok"
      \/ /\ line["A"] # <<>> /\ line["A"] # <<ACK>>
         /\ port'["A"].status = "BUSY" /\ port'["A"].state = "WAIT_ACK"
         /\ app'["A"] \in {"wait", "again"} /\ outcome'["A"] = "pending"
      \/ /\ line["A"] # <<>> /\ line["A"] # <<ACK>>
         /\ port'["A"].status = "FREE" /\ port'["A"].state = "IDLE"
         /\ app'["A"] = "talk" /\ outcome'["A"] = "failed"
  BY TxReadyView
<1>3. /\ AuxTyped /\ settings \in Settings /\ SenderSure /\ ReceiverSure /\ LineSure /\ Credit
      /\ "B" \in Ends /\ "A" \in Ends
  BY LinkFacts
<1>4. /\ port["A"].status = "BUSY" /\ ~port["A"].rxFlag /\ posted["A"] # <<>>
      /\ port["A"].tx = Package(Latest) /\ port["A"].state \in {"IDLE", "WAIT_ACK"}
  BY <1>1, <1>3 DEF SenderSure, Sender
<1>5. Owed' = Owed
  BY <1>1 DEF Owed, settings
<1>6. SenderSure'
  <2>1. Package(Latest)' = Package(Latest)
    <3>1. Latest' = Latest
      BY <1>1 DEF Latest
    <3> QED BY <1>1, <3>1, SameTrack
  <2> QED BY <1>1, <1>2, <1>4, <2>1 DEF SenderSure, Sender
<1>7. ReceiverSure'
  BY <1>1, <1>3 DEF ReceiverSure, Receiver, BufOK
<1>8. LineSure'
  <2>1. Owed => line["A"] = <<>> /\ port["A"].state = "WAIT_ACK"
    BY <1>3 DEF LineSure, Sender
  <2>2. Owed => port'["A"].state = "WAIT_ACK" /\ app'["A"] = "wait"
    <3>1. <<ACK>> # <<>>
      OBVIOUS
    <3> QED BY <1>2, <2>1, <3>1
  <2>3. app'["A"] = "again" => port'["A"].state = "WAIT_ACK"
    BY <1>2
  <2> QED BY <1>1, <1>5, <2>2, <2>3 DEF LineSure, Sender
<1>9. Credit'
  <2>1. AckOnWay' <=> Owed
    BY <1>1, <1>5 DEF AckOnWay
  <2>3. AckOnWay' => AckOnWay
    BY <2>1 DEF AckOnWay
  <2>4. AckOnWay /\ ~AckOnWay' => outcome'["A"] = "ok"
    <3>1. AckOnWay /\ ~AckOnWay' => line["A"] = <<ACK>>
      BY <2>1 DEF AckOnWay
    <3>2. <<ACK>> # <<>>
      OBVIOUS
    <3> QED BY <1>2, <3>1, <3>2
  <2> QED BY <1>1, <2>3, <2>4, CreditKept
<1>10. Awaited => Awaited'
  <2>1. Awaited => line["A"] = <<>> /\ port["A"].state = "WAIT_ACK"
    BY DEF Awaited, Sender
  <2>2. <<ACK>> # <<>>
    OBVIOUS
  <2>3. Awaited => port'["A"] = port["A"] /\ app'["A"] = "wait"
    BY <1>2, <2>1, <2>2
  <2> QED BY <1>1, <1>5, <2>1, <2>3 DEF Awaited, Sender
<1>11. \A S : Calm(S) /\ Track(S, Channel) => Track(S, Channel')
  BY <1>1, <1>10, ChannelKept
<1> QED BY <1>1, <1>6, <1>7, <1>8, <1>9, <1>11, LinkNext

\* The package goes out once more, for a NAK that the same poll has taken.
LEMMA TxAgainView ==
  ASSUME LinkInv, Reliable, Reliable', NEW e \in Ends, TxAgain(e)
  PROVE  /\ e = "A" /\ UNCHANGED settings
         /\ app["A"] = "again" /\ outcome["A"] = "pending" /\ due["A"] = "none"
         /\ UNCHANGED <<due, posted, rcvd, got, faults, hit>>
         /\ port["A"].state = "WAIT_ACK" /\ line["A"] = <<>> /\ ~Owed
         /\ port'["B"] = port["B"] /\ app'["B"] = app["B"]
         /\ port'["A"].tx = port["A"].tx /\ port'["A"].rxFlag = port["A"].rxFlag
         /\ port'["A"].state = "WAIT_ACK" /\ port'["A"].status = "BUSY"
         /\ line'["A"] = <<>> /\ line'["B"] = line["B"] \o port["A"].tx
         /\ app'["A"] = "wait" /\ outcome'["A"] = "pending"
<1>1. e = "A" /\ Other(e) = "B"
  <2>1. app[e] = "again"
    BY DEF TxAgain
  <2> QED BY <2>1, WhoTalks DEF Other
<1> DEFINE p == port["A"]
<1>2. PICK r \in ResendPackage(p, TRUE) :
        /\ Told("A", IF r.bytes = <<>> THEN [r.port EXCEPT !.status = "ERROR"] ELSE r.port)
        /\ line' = [line EXCEPT !["B"] = @ \o r.bytes]
        /\ CountRefusal(r)
  BY <1>1 DEF TxAgain
<1>3. app["A"] = "again" /\ UNCHANGED settings /\ UNCHANGED <<due, posted, rcvd, got, faults, hit>>
  BY <1>1 DEF TxAgain
<1>4. /\ AuxTyped /\ "A" \in Ends /\ "B" \in Ends /\ PortOK(p)
      /\ SenderSure /\ LineSure /\ Talkers = {"A"} /\ refusals = 0
  BY LinkFacts
<1>5. /\ outcome["A"] = "pending" /\ p.status = "BUSY" /\ due["A"] = "none"
      /\ p.state = "WAIT_ACK" /\ line["A"] = <<>> /\ ~Owed
  BY <1>3, <1>4 DEF SenderSure, LineSure, Sender
<1>6. r.bytes # <<>>
  <2>1. refusals' = 0
    BY DEF Reliable
  <2> QED BY <1>2, <1>4, <2>1 DEF CountRefusal
<1> HIDE DEF p
<1>7. /\ r.port \in Ports /\ r.bytes = p.tx /\ r.port.tx = p.tx /\ r.port.state = "WAIT_ACK"
      /\ r.port.status = "BUSY" /\ r.port.rxFlag = p.rxFlag
  BY <1>2, <1>4, <1>5, <1>6, ResendPackageDoes
<1>8. Told("A", r.port)
  BY <1>2, <1>6
<1>9. /\ port'["B"] = port["B"] /\ app'["B"] = app["B"] /\ port'["A"] = r.port
      /\ app'["A"] = "wait" /\ outcome'["A"] = "pending"
  BY <1>4, <1>5, <1>7, <1>8, ToldDoes
<1>10. line'["A"] = line["A"] /\ line'["B"] = line["B"] \o p.tx
  BY <1>2, <1>4, <1>7 DEF AuxTyped
<1> QED BY <1>1, <1>3, <1>5, <1>7, <1>9, <1>10 DEF p

LEMMA TxAgainLink ==
  ASSUME LinkInv, Reliable, Reliable', NEW e \in Ends, TxAgain(e)
  PROVE  LinkOK'
<1>1. /\ UNCHANGED settings
      /\ app["A"] = "again" /\ outcome["A"] = "pending" /\ due["A"] = "none"
      /\ UNCHANGED <<due, posted, rcvd, got, faults, hit>>
      /\ port["A"].state = "WAIT_ACK" /\ line["A"] = <<>> /\ ~Owed
      /\ port'["B"] = port["B"] /\ app'["B"] = app["B"]
      /\ port'["A"].tx = port["A"].tx /\ port'["A"].rxFlag = port["A"].rxFlag
      /\ port'["A"].state = "WAIT_ACK" /\ port'["A"].status = "BUSY"
      /\ line'["A"] = <<>> /\ line'["B"] = line["B"] \o port["A"].tx
      /\ app'["A"] = "wait" /\ outcome'["A"] = "pending"
  BY TxAgainView
<1>2. /\ AuxTyped /\ settings \in Settings /\ SenderSure /\ ReceiverSure /\ LineSure /\ Credit
      /\ "B" \in Ends /\ "A" \in Ends
  BY LinkFacts
<1>3. ~port["A"].rxFlag /\ posted["A"] # <<>> /\ port["A"].tx = Package(Latest)
  BY <1>1, <1>2 DEF SenderSure, Sender
<1>4. ~Owed' /\ ~Awaited /\ Latest' = Latest
  BY <1>1 DEF Owed, settings, Awaited, Latest
<1>5. Awaited'
  BY <1>1, <1>4 DEF Awaited, Sender
<1>6. SenderSure'
  <2>1. Package(Latest)' = Package(Latest)
    BY <1>1, <1>4, SameTrack
  <2> QED BY <1>1, <1>3, <2>1 DEF SenderSure, Sender
<1>7. ReceiverSure'
  BY <1>1, <1>2 DEF ReceiverSure, Receiver, BufOK
<1>8. LineSure'
  BY <1>1, <1>4 DEF LineSure, Sender
<1>9. Credit'
  <2>1. ~AckOnWay /\ ~AckOnWay'
    <3>1. <<ACK>> # <<>>
      OBVIOUS
    <3> QED BY <1>1, <1>4, <3>1 DEF AckOnWay
  <2> QED BY <1>1, <2>1, CreditKept
<1>10. Latest \in Messages
  BY <1>3, LinkFacts DEF Latest
<1>11. ASSUME NEW S, Calm(S), Track(S, Channel) PROVE Track(S, Channel')
  <2>1. Channel'.bytes = Channel.bytes \o Package(Last(Channel'.posted)) /\ Channel.bytes \in Seq(Bytes)
    BY <1>1, <1>2, <1>3, ChannelNow, ChannelNext DEF AuxTyped, Latest
  <2>2. ~Channel.awaited /\ Channel'.posted # <<>> /\ Last(Channel'.posted) \in Messages /\ Channel'.awaited
    BY <1>1, <1>3, <1>4, <1>5, <1>10, ChannelNow, ChannelNext DEF Latest
  <2>3. Channel'.ear = Channel.ear /\ Channel'.struck = Channel.struck /\ Channel'.faults = Channel.faults
        /\ Channel'.tob = Channel.tob
    BY <1>1, ChannelNow, ChannelNext
  <2> QED BY <1>11, <2>1, <2>2, <2>3, TrackSent
<1> QED BY <1>1, <1>6, <1>7, <1>8, <1>9, <1>11, LinkNext

LEMMA GiveUpLink ==
  ASSUME LinkInv, Reliable, Reliable', NEW e \in Ends, GiveUp(e)
  PROVE  LinkOK'
<1>1. e = "A"
  <2>1. app[e] = "wait"
    BY DEF GiveUp
  <2> QED BY <2>1, WhoTalks
<1>2. /\ app["A"] = "wait" /\ port["A"].state # "WAIT_ACK" /\ line["A"] = <<>> /\ due["A"] = "none"
      /\ app' = [app EXCEPT !["A"] = "talk"] /\ outcome' = [outcome EXCEPT !["A"] = "failed"]
      /\ UNCHANGED settings /\ UNCHANGED <<port, line, due, posted, rcvd, got, faults, refusals, hit>>
  BY <1>1 DEF GiveUp
<1>3. /\ AuxTyped /\ settings \in Settings /\ SenderSure /\ ReceiverSure /\ LineSure /\ Credit
      /\ "B" \in Ends /\ "A" \in Ends
  BY LinkFacts
<1>4. app'["A"] = "talk" /\ app'["B"] = app["B"] /\ outcome'["A"] = "failed"
  BY <1>2, <1>3 DEF AuxTyped
<1>5. /\ port["A"].status = "BUSY" /\ port["A"].state = "IDLE" /\ ~port["A"].rxFlag
      /\ outcome["A"] = "pending"
  BY <1>2, <1>3 DEF SenderSure, Sender
<1>6. Owed' = Owed /\ ~Owed /\ ~Awaited
  BY <1>2, <1>3, <1>4 DEF Owed, settings, LineSure, Sender, Awaited
<1>7. SenderSure'
  BY <1>2, <1>4, <1>5 DEF SenderSure, Sender
<1>8. ReceiverSure'
  BY <1>2, <1>3, <1>4 DEF ReceiverSure, Receiver, BufOK
<1>9. LineSure'
  BY <1>2, <1>6 DEF LineSure, Sender
<1>10. Credit'
  <2>1. AckOnWay' = AckOnWay /\ ~AckOnWay
    <3>1. <<ACK>> # <<>>
      OBVIOUS
    <3> QED BY <1>2, <1>6, <3>1 DEF AckOnWay
  <2> QED BY <1>2, <1>4, <2>1, CreditKept
<1>11. \A S : Calm(S) /\ Track(S, Channel) => Track(S, Channel')
  BY <1>2, <1>6, ChannelKept
<1> QED BY <1>2, <1>7, <1>8, <1>9, <1>10, <1>11, LinkNext

LEMMA RestartReader ==
  ASSUME NEW p \in Ports, BufOK(p)
  PROVE  Reader(Restart(p)) = Reader(p) /\ BufOK(Restart(p))
<1>1. CASE p.rxFlag
  <2>1. Restart(p) = p
    BY <1>1 DEF Restart
  <2> QED BY <2>1
<1>2. CASE ~p.rxFlag
  <2> DEFINE q == [p EXCEPT !.state = "IDLE", !.rxFlag = TRUE, !.cnt = 0, !.lrc = 0,
                            !.buf = <<>>, !.len = 0]
  <2>1. Restart(p) = q
    BY <1>2 DEF Restart
  <2>2. q.state = "IDLE" /\ q.rxFlag /\ q.buf = <<>>
    BY DEF Ports
  <2> HIDE DEF q
  <2>3. Reader(p) = FreshReader
    BY <1>2, IdleReader
  <2>4. Restart(q) = q
    BY <2>2 DEF Restart
  <2>5. Reader(q) = FreshReader
    BY <2>2, <2>4 DEF Reader
  <2>6. BufOK(q)
    BY <2>2 DEF BufOK
  <2> QED BY <2>1, <2>3, <2>5, <2>6
<1> QED BY <1>1, <1>2

\* What the poll of a receiver does to the link.
LEMMA RxReadyView ==
  ASSUME LinkInv, Reliable, NEW e \in Ends, RxReady(e)
  PROVE  /\ e = "B" /\ UNCHANGED settings
         /\ app["B"] = "listen" /\ due["B"] = "none" /\ port["B"] \in Ports
         /\ UNCHANGED <<due, posted, outcome, got, faults, refusals>>
         /\ port'["A"] = port["A"] /\ app'["A"] = app["A"]
         /\ hit'["B"] <=> hit["B"] /\ line'["B"] # <<>>
         /\ port'["B"].state # "WAIT_ACK" /\ BufOK(port'["B"])
         /\ app'["B"] \in {"listen", "ready"}
         /\ app'["B"] = "ready" => port'["B"].len > 0
         /\ \/ /\ line["B"] = <<>> /\ line'["B"] = <<>> /\ line'["A"] = line["A"]
               /\ Reader(port'["B"]) = Reader(port["B"])
               /\ rcvd'["B"] = rcvd["B"] /\ app'["B"] = "listen"
            \/ /\ line["B"] # <<>> /\ line'["B"] = Tail(line["B"])
               /\ Reader(port'["B"]) = Reads(Reader(port["B"]), Head(line["B"]))
               /\ \/ /\ Verdict(Reader(port["B"]), Head(line["B"])) = <<>>
                     /\ line'["A"] = line["A"]
                     /\ rcvd'["B"] = rcvd["B"] /\ app'["B"] = "listen"
                  \/ /\ Verdict(Reader(port["B"]), Head(line["B"])) = <<Bad>>
                     /\ line'["A"] = line["A"] \o <<NAK>>
                     /\ rcvd'["B"] = rcvd["B"] /\ app'["B"] = "listen"
                  \/ \E x \in Seq(Bytes) :
                       /\ Verdict(Reader(port["B"]), Head(line["B"])) = <<Good(x)>>
                       /\ line'["A"] = line["A"] \o (IF ackMode THEN <<>> ELSE <<ACK>>)
                       /\ rcvd'["B"] = Append(rcvd["B"], x) /\ app'["B"] = "ready"
<1>1. e = "B" /\ Other(e) = "A"
  <2>1. app[e] = "listen"
    BY DEF RxReady
  <2> QED BY <2>1, WhoTalks DEF Other
<1> DEFINE p == Restart(port["B"])
           b == Head(line["B"])
           f == IF p.buf = <<>> THEN b ELSE p.first
           q == [p EXCEPT !.first = f]
           r == DataLinkRx(q, b)
<1>2. /\ app["B"] = "listen" /\ CanRun("B") /\ UNCHANGED settings
      /\ UNCHANGED <<due, posted, outcome, got, faults, refusals>>
      /\ hit' = [hit EXCEPT !["B"] = @ /\ line'["B"] # <<>>]
      /\ app' = [app EXCEPT !["B"] = IF port'["B"].len > 0 THEN "ready" ELSE "listen"]
  BY <1>1 DEF RxReady
<1>3. /\ AuxTyped /\ "A" \in Ends /\ "B" \in Ends /\ PortOK(port["B"]) /\ port["B"] \in Ports
      /\ port["B"].len = 0 /\ ReceiverSure /\ mode # "STX" /\ timing = "timely" /\ Acks = 1
      /\ settings \in Settings /\ line["A"] \in Seq(Bytes) /\ line["B"] \in Seq(Bytes)
  <2>1. port["B"].len \in Nat /\ ~(port["B"].len > 0)
    BY <1>2, LinkFacts
  <2>2. port["B"].len = 0
    BY <2>1
  <2>3. /\ AuxTyped /\ "A" \in Ends /\ "B" \in Ends /\ PortOK(port["B"])
        /\ ReceiverSure /\ mode # "STX" /\ timing = "timely" /\ Acks = 1 /\ settings \in Settings
    BY LinkFacts
  <2> QED BY <2>2, <2>3 DEF PortOK, AuxTyped
<1>4. due["B"] = "none" /\ port["B"].state # "WAIT_ACK" /\ BufOK(port["B"])
  BY <1>2, <1>3 DEF CanRun, ReceiverSure, Receiver
<1>5. hit'["B"] <=> hit["B"] /\ line'["B"] # <<>>
  BY <1>2, <1>3 DEF AuxTyped
<1>6. app'["A"] = app["A"] /\ app'["B"] = IF port'["B"].len > 0 THEN "ready" ELSE "listen"
  BY <1>2, <1>3 DEF AuxTyped
<1>7. CASE line["B"] = <<>>
  <2>1. port' = [port EXCEPT !["B"] = p] /\ UNCHANGED <<line, rcvd>>
    BY <1>1, <1>7 DEF RxReady
  <2>2. port'["B"] = p /\ port'["A"] = port["A"]
    BY <1>3, <2>1 DEF AuxTyped
  <2>3. p.len \in {0, port["B"].len} /\ p.state \in {port["B"].state, "IDLE"}
    BY <1>3, RestartOK
  <2>4. Reader(p) = Reader(port["B"]) /\ BufOK(p)
    BY <1>3, <1>4, RestartReader
  <2> HIDE DEF p
  <2>5. ~(p.len > 0)
    BY <1>3, <2>3
  <2> QED BY <1>1, <1>2, <1>3, <1>4, <1>5, <1>6, <1>7, <2>1, <2>2, <2>3, <2>4, <2>5
<1>8. CASE line["B"] # <<>>
  <2>1. /\ port' = [port EXCEPT !["B"] = r]
        /\ line' = [line EXCEPT !["B"] = Tail(@), !["A"] = @ \o Answer(q, b)]
        /\ rcvd' = [rcvd EXCEPT !["B"] = IF AtLrc(q) /\ r.len > 0 THEN Append(@, r.buf) ELSE @]
    BY <1>1, <1>3, <1>8 DEF RxReady
  <2>2. b \in Bytes
    BY <1>3, <1>8
  <2>3. f \in Bytes
    <3>1. p \in Ports
      BY <1>3, RestartOK DEF PortOK
    <3> HIDE DEF p, b
    <3> QED BY <2>2, <3>1 DEF Ports
  <2> DEFINE ear == Reader(port["B"])
  <2>4. /\ Alike(q, ear) /\ PortOK(q) /\ BufOK(q) /\ q.len = 0
        /\ q.state \in {port["B"].state, "IDLE"}
    <3> HIDE DEF f
    <3> QED BY <1>3, <1>4, <2>3, PolledAlike
  <2>5. /\ port'["B"] = r /\ port'["A"] = port["A"] /\ line'["B"] = Tail(line["B"])
        /\ line'["A"] = line["A"] \o Answer(q, b)
        /\ rcvd'["B"] = IF AtLrc(q) /\ r.len > 0 THEN Append(rcvd["B"], r.buf) ELSE rcvd["B"]
    <3> HIDE DEF r, q, b
    <3> QED BY <1>3, <2>1 DEF AuxTyped
  <2> HIDE DEF p, b, f, q, ear
  <2>6. /\ Reader(r) = Reads(ear, b) /\ BufOK(r) /\ Verdict(q, b) = Verdict(ear, b)
    <3>1. q.state # "WAIT_ACK"
      BY <1>4, <2>4
    <3> QED BY <1>3, <2>2, <2>4, <3>1, ReadsAlike DEF Reads
  <2>7. r.state # "WAIT_ACK" /\ PortOK(r)
    BY <1>3, <1>4, <2>2, <2>4, DataLinkRxOK
  <2>8. \/ Verdict(q, b) = <<>> /\ ~AtLrc(q) /\ r.len = 0 /\ Answer(q, b) = <<>>
        \/ Verdict(q, b) = <<Bad>> /\ r.len = 0 /\ Answer(q, b) = <<NAK>>
        \/ /\ Verdict(q, b) = <<Good(q.buf)>> /\ AtLrc(q) /\ r.len > 0 /\ r.buf = q.buf
           /\ Answer(q, b) = IF ackMode THEN <<>> ELSE Repeat(ACK, Acks)
    <3>1. q.rxFlag
      BY <2>4 DEF Alike
    <3> QED BY <1>3, <2>2, <2>4, <3>1, VerdictOf
  <2> HIDE DEF r
  <2>9. Repeat(ACK, Acks) = <<ACK>>
    BY <1>3 DEF Repeat
  <2>10. q.buf \in Seq(Bytes)
    BY <2>4 DEF PortOK, Ports
  <2>11. line["A"] \o <<>> = line["A"] /\ ~(0 > 0)
    BY <1>3
  <2>12. \/ /\ Verdict(ear, b) = <<>>
            /\ line'["A"] = line["A"]
            /\ rcvd'["B"] = rcvd["B"] /\ app'["B"] = "listen"
         \/ /\ Verdict(ear, b) = <<Bad>>
            /\ line'["A"] = line["A"] \o <<NAK>>
            /\ rcvd'["B"] = rcvd["B"] /\ app'["B"] = "listen"
         \/ \E x \in Seq(Bytes) :
              /\ Verdict(ear, b) = <<Good(x)>>
              /\ line'["A"] = line["A"] \o (IF ackMode THEN <<>> ELSE <<ACK>>)
              /\ rcvd'["B"] = Append(rcvd["B"], x) /\ app'["B"] = "ready"
    <3>1. CASE r.len = 0
      BY <1>6, <2>5, <2>6, <2>8, <2>11, <3>1
    <3>2. CASE r.len # 0
      <4>1. /\ Verdict(ear, b) = <<Good(q.buf)>> /\ AtLrc(q) /\ r.len > 0 /\ r.buf = q.buf
            /\ Answer(q, b) = IF ackMode THEN <<>> ELSE <<ACK>>
        BY <2>6, <2>8, <2>9, <3>2
      <4> QED BY <1>6, <2>5, <2>10, <4>1
    <3> QED BY <3>1, <3>2
  <2>13. Reader(port'["B"]) = Reads(ear, b)
    BY <2>5, <2>6
  <2> QED BY <1>1, <1>2, <1>3, <1>4, <1>5, <1>6, <1>8, <2>5, <2>6, <2>7, <2>12, <2>13 DEF ear, b
<1> QED BY <1>7, <1>8

\* Nothing is on its way to a receiver that stays what it is.
LEMMA TrackSilent ==
  ASSUME settings \in Settings, NEW S, NEW c, NEW d, Track(S, c), c.bytes = <<>>, d.bytes = <<>>,
         c.posted # <<>> => Last(c.posted) \in Messages,
         d.ear = c.ear, d.posted = c.posted, d.faults = c.faults, d.awaited = c.awaited, ~d.tob
  PROVE  Track(S, d)
<1>1. CASE Resting(c)
  BY <1>1 DEF Track, Resting
<1>2. ASSUME NEW r \in S \cap Readers, NEW m \in Messages, NEW u \in Seq(Bytes), NEW v \in Seq(Bytes),
             Undecided(c, r, m, u, v) \/ Decided(c, r, m, u, v)
      PROVE  Undecided(d, r, m, u, v) \/ Decided(d, r, m, u, v)
  <2>1. v = <<>>
    <3>1. CASE c.bytes = v
      BY <3>1
    <3>2. CASE c.bytes # v
      <4> DEFINE p == Package(Last(c.posted))
      <4>1. v # <<>> /\ c.posted # <<>> /\ c.bytes = v \o p
        BY <1>2, <3>2 DEF Undecided, Decided
      <4>2. p \in Seq(Bytes)
        BY <4>1, PackageType
      <4> HIDE DEF p
      <4>3. v \o p # <<>>
        BY <4>1, <4>2
      <4> QED BY <4>1, <4>3
    <3> QED BY <3>1, <3>2
  <2>2. Passing(c, r, m, u, v) => Passing(d, r, m, u, v)
    BY <2>1 DEF Passing
  <2> QED BY <1>2, <2>1, <2>2 DEF Undecided, Decided
<1> QED BY <1>1, <1>2 DEF Track

\* What the receiver has judged is the latest message, and the sender waits to hear of it.
LEMMA RxReadyHears ==
  ASSUME LinkInv, Reliable, NEW e \in Ends, RxReady(e), line["B"] # <<>>
  PROVE  /\ \A S : Calm(S) /\ Track(S, Channel) => Track(S, Channel')
         /\ Verdict(Reader(port["B"]), Head(line["B"])) # <<>> =>
              /\ Awaited /\ posted["A"] # <<>>
              /\ Verdict(Reader(port["B"]), Head(line["B"])) \in {<<Good(Latest)>>, <<Bad>>}
<1> DEFINE w == Verdict(Reader(port["B"]), Head(line["B"]))
<1>1. /\ UNCHANGED settings /\ app["B"] = "listen" /\ due["B"] = "none"
      /\ UNCHANGED <<due, posted, faults>> /\ port'["A"] = port["A"]
      /\ app'["A"] = app["A"]
      /\ hit'["B"] <=> hit["B"] /\ line'["B"] # <<>>
      /\ line'["B"] = Tail(line["B"])
      /\ Reader(port'["B"]) = Reads(Reader(port["B"]), Head(line["B"]))
      /\ w = <<>> => line'["A"] = line["A"] /\ app'["B"] = "listen"
  <2>1. <<Bad>> # <<>> /\ \A x : <<Good(x)>> # <<>>
    OBVIOUS
  <2> HIDE DEF w
  <2>2. /\ UNCHANGED settings /\ app["B"] = "listen" /\ due["B"] = "none"
        /\ UNCHANGED <<due, posted, faults>> /\ port'["A"] = port["A"]
        /\ app'["A"] = app["A"]
        /\ hit'["B"] <=> hit["B"] /\ line'["B"] # <<>>
    BY RxReadyView
  <2>3. /\ line'["B"] = Tail(line["B"])
        /\ Reader(port'["B"]) = Reads(Reader(port["B"]), Head(line["B"]))
    BY RxReadyView
  <2>4. w = <<>> => line'["A"] = line["A"] /\ app'["B"] = "listen"
    BY <2>1, RxReadyView DEF w
  <2> QED BY <2>2, <2>3, <2>4
<1>2. /\ AuxTyped /\ settings \in Settings /\ "B" \in Ends
      /\ posted["A"] # <<>> => Last(posted["A"]) \in Messages
  BY LinkFacts
<1>3. w = <<>> => (Awaited' <=> Awaited)
  BY <1>1 DEF Awaited, Sender, Owed, settings
<1> HIDE DEF w
<1>4. w = Verdict(Channel.ear, Head(Channel.bytes))
  BY ChannelNow DEF w
<1>5. ASSUME NEW S, Calm(S), Track(S, Channel)
      PROVE  /\ Track(S, Channel')
             /\ w # <<>> => Awaited /\ posted["A"] # <<>> /\ w \in {<<Good(Latest)>>, <<Bad>>}
  <2>1. /\ Channel.bytes \in Seq(Bytes) /\ Channel.bytes # <<>>
        /\ Channel.posted # <<>> => Last(Channel.posted) \in Messages
    BY <1>2, ChannelNow DEF AuxTyped
  <2>2. /\ Channel'.bytes = Tail(Channel.bytes) /\ Channel'.ear = Reads(Channel.ear, Head(Channel.bytes))
        /\ Channel'.struck <=> Channel.struck /\ Channel'.bytes # <<>>
        /\ Channel'.faults = Channel.faults /\ Channel'.posted = Channel.posted /\ ~Channel'.tob
    BY <1>1, ChannelNow, ChannelNext
  <2>3. w = <<>> => Channel'.awaited = Channel.awaited
    <3>1. Channel'.awaited = Awaited' /\ Channel.awaited = Awaited
      BY ChannelNow, ChannelNext
    <3>2. Awaited \in BOOLEAN /\ Awaited' \in BOOLEAN
      BY DEF Awaited
    <3> QED BY <1>3, <3>1, <3>2
  <2>4. /\ Track(S, Channel')
        /\ w # <<>> =>
             /\ Channel.awaited /\ Channel.posted # <<>>
             /\ w \in {<<Good(Last(Channel.posted))>>, <<Bad>>}
    BY <1>4, <1>5, <2>1, <2>2, <2>3, TrackRead
  <2>5. Channel.awaited = Awaited /\ Channel.posted = posted["A"]
    BY ChannelNow
  <2> QED BY <2>4, <2>5 DEF Latest
<1>6. \E S : Calm(S) /\ Track(S, Channel)
  BY DEF LinkInv, LinkOK
<1> QED BY <1>5, <1>6 DEF w

LEMMA RxReadyLink ==
  ASSUME LinkInv, Reliable, Reliable', NEW e \in Ends, RxReady(e)
  PROVE  LinkOK'
<1>1. /\ UNCHANGED settings /\ app["B"] = "listen" /\ due["B"] = "none" /\ port["B"] \in Ports
      /\ UNCHANGED <<due, posted, outcome, got, faults, refusals>>
      /\ port'["A"] = port["A"] /\ app'["A"] = app["A"]
      /\ hit'["B"] <=> hit["B"] /\ line'["B"] # <<>>
      /\ port'["B"].state # "WAIT_ACK" /\ BufOK(port'["B"])
      /\ app'["B"] \in {"listen", "ready"}
      /\ app'["B"] = "ready" => port'["B"].len > 0
  BY RxReadyView
<1>2. /\ AuxTyped /\ settings \in Settings /\ SenderSure /\ ReceiverSure /\ LineSure /\ Credit
      /\ "A" \in Ends /\ "B" \in Ends
      /\ posted["A"] # <<>> => Last(posted["A"]) \in Messages
  BY LinkFacts
<1>3. ~Owed /\ Latest' = Latest
  BY <1>1 DEF Owed, Latest
<1>4. SenderSure'
  <2>1. Package(Latest)' = Package(Latest)
    BY <1>1, <1>3, SameTrack
  <2> QED BY <1>1, <1>2, <2>1 DEF SenderSure, Sender
<1>5. ReceiverSure'
  <2>1. BufOK(Receiver)'
    BY <1>1 DEF BufOK, Receiver
  <2> QED BY <1>1, <2>1 DEF ReceiverSure, Receiver
\* Nothing was judged.
<1>6. CASE line'["A"] = line["A"] /\ rcvd'["B"] = rcvd["B"] /\ app'["B"] = "listen"
  <2>1. ~Owed' /\ (AckOnWay' <=> AckOnWay) /\ (Awaited' <=> Awaited)
    BY <1>1, <1>3, <1>6 DEF Owed, AckOnWay, Awaited, Sender
  <2>2. Credit'
    BY <1>1, <1>6, <2>1, CreditKept
  <2>3. CASE line["B"] = <<>>
    <3>1. Reader(port'["B"]) = Reader(port["B"]) /\ line'["B"] = <<>>
      BY <2>3, RxReadyView
    <3>2. LineSure'
      <4>1. Reader(Receiver)' = Reader(Receiver)
        BY <1>1, <3>1, SameTrack DEF Receiver
      <4> QED BY <1>1, <1>2, <1>3, <1>6, <2>1, <2>3, <3>1, <4>1 DEF LineSure, Sender
    <3>3. ASSUME NEW S, Calm(S), Track(S, Channel) PROVE Track(S, Channel')
      <4>1. /\ Channel.bytes = <<>> /\ Channel'.bytes = <<>> /\ Channel'.ear = Channel.ear
            /\ Channel'.posted = Channel.posted /\ Channel'.faults = Channel.faults /\ ~Channel'.tob
            /\ Channel.posted # <<>> => Last(Channel.posted) \in Messages
        BY <1>1, <1>2, <2>3, <3>1, ChannelNow, ChannelNext
      <4>2. Channel'.awaited = Channel.awaited
        <5>1. Channel'.awaited = Awaited' /\ Channel.awaited = Awaited
          BY ChannelNow, ChannelNext
        <5>2. Awaited \in BOOLEAN /\ Awaited' \in BOOLEAN
          BY DEF Awaited
        <5> QED BY <2>1, <5>1, <5>2
      <4> QED BY <1>2, <3>3, <4>1, <4>2, TrackSilent
    <3> QED BY <1>1, <1>4, <1>5, <2>2, <3>2, <3>3, LinkNext
  <2>4. CASE line["B"] # <<>>
    <3>1. LineSure'
      BY <1>1, <1>2, <1>3, <1>6, <2>1, <2>4 DEF LineSure, Sender
    <3> QED BY <1>1, <1>4, <1>5, <2>2, <2>4, <3>1, RxReadyHears, LinkNext
  <2> QED BY <2>3, <2>4
\* A package was judged, and the sender waits to hear of it.
<1>7. CASE ~(line'["A"] = line["A"] /\ rcvd'["B"] = rcvd["B"] /\ app'["B"] = "listen")
  <2> DEFINE w == Verdict(Reader(port["B"]), Head(line["B"]))
  <2>1. /\ line["B"] # <<>>
        /\ \/ /\ w = <<Bad>> /\ line'["A"] = line["A"] \o <<NAK>>
              /\ rcvd'["B"] = rcvd["B"] /\ app'["B"] = "listen"
           \/ \E x \in Seq(Bytes) :
                /\ w = <<Good(x)>>
                /\ line'["A"] = line["A"] \o (IF ackMode THEN <<>> ELSE <<ACK>>)
                /\ rcvd'["B"] = Append(rcvd["B"], x) /\ app'["B"] = "ready"
    BY <1>7, RxReadyView
  <2> HIDE DEF w
  <2>2. Awaited /\ posted["A"] # <<>> /\ w \in {<<Good(Latest)>>, <<Bad>>}
    <3>1. <<Bad>> # <<>> /\ \A x : <<Good(x)>> # <<>>
      OBVIOUS
    <3>2. w # <<>>
      BY <2>1, <3>1
    <3> QED BY <2>1, <3>2, RxReadyHears DEF w
  <2>3. line["A"] = <<>> /\ port["A"].state = "WAIT_ACK" /\ app["A"] = "wait" /\ outcome["A"] = "pending"
    <3>1. line["A"] = <<>> /\ port["A"].state = "WAIT_ACK" /\ app["A"] # "again"
      BY <2>2 DEF Awaited, Sender
    <3> QED BY <1>2, <3>1 DEF SenderSure, Sender
  <2>4. due["A"] \notin {"resend", "clear", "set"}
    BY <1>2, <2>1 DEF LineSure
  <2>5. \/ /\ line'["A"] = <<NAK>> /\ rcvd'["B"] = rcvd["B"] /\ app'["B"] = "listen"
        \/ /\ line'["A"] = IF ackMode THEN <<>> ELSE <<ACK>>
           /\ rcvd'["B"] = Append(rcvd["B"], Latest) /\ app'["B"] = "ready"
           /\ Latest \in Seq(Bytes)
    <3>1. <<>> \o <<NAK>> = <<NAK>> /\ <<>> \o <<ACK>> = <<ACK>> /\ <<>> \o <<>> = <<>>
      OBVIOUS
    <3>2. \A x, y : <<Good(x)>> = <<Good(y)>> => x = y
      BY DEF Good
    <3>3. \A x : <<Good(x)>> # <<Bad>>
      BY DEF Good, Bad, ACK, NAK
    <3>4. CASE w = <<Bad>>
      BY <2>1, <2>3, <3>1, <3>3, <3>4
    <3>5. CASE w # <<Bad>>
      <4>1. PICK x \in Seq(Bytes) :
              /\ w = <<Good(x)>>
              /\ line'["A"] = line["A"] \o (IF ackMode THEN <<>> ELSE <<ACK>>)
              /\ rcvd'["B"] = Append(rcvd["B"], x) /\ app'["B"] = "ready"
        BY <2>1, <3>5
      <4>2. x = Latest
        <5>1. <<Good(x)>> = <<Good(Latest)>>
          BY <2>2, <3>5, <4>1
        <5> QED BY <3>2, <5>1
      <4> QED BY <2>3, <3>1, <4>1, <4>2
    <3> QED BY <3>4, <3>5
  <2>6. NAK # ACK /\ NAK # SOH /\ ACK # SOH /\ <<NAK>> # <<ACK>> /\ <<>> # <<ACK>>
        /\ Len(<<NAK>>) = 1 /\ Len(<<ACK>>) = 1 /\ <<NAK>>[1] = NAK /\ <<ACK>>[1] = ACK
        /\ <<NAK>> # <<>>
    BY DEF NAK, ACK, SOH
  <2>7. Owed' <=> ackMode /\ app'["B"] = "ready"
    BY <1>1 DEF Owed, settings
  <2>8. LineSure'
    <3>1. line'["A"] # <<>> => Len(line'["A"]) = 1 /\ line'["A"][1] # SOH /\ ~Owed'
      BY <2>5, <2>6, <2>7
    <3> QED BY <1>1, <2>3, <2>4, <3>1 DEF LineSure, Sender
  <2>9. ~AckOnWay
    BY <1>3, <2>3, <2>6 DEF AckOnWay
  <2>10. Credit'
    <3>1. CASE line'["A"] = <<NAK>> /\ rcvd'["B"] = rcvd["B"] /\ app'["B"] = "listen"
      <4>1. ~AckOnWay'
        BY <2>6, <2>7, <3>1 DEF AckOnWay
      <4> QED BY <1>1, <2>3, <2>9, <3>1, <4>1, CreditKept
    <3>2. CASE /\ line'["A"] = IF ackMode THEN <<>> ELSE <<ACK>>
               /\ rcvd'["B"] = Append(rcvd["B"], Latest) /\ app'["B"] = "ready"
               /\ Latest \in Seq(Bytes)
      <4>1. AckOnWay'
        BY <2>7, <3>2 DEF AckOnWay
      <4>2. rcvd["B"] \in Seq(Seq(Bytes))
        BY <1>2 DEF AuxTyped
      <4>3. Last(rcvd'["B"]) = Latest /\ rcvd'["B"] # <<>> /\ Len(rcvd'["B"]) = Len(rcvd["B"]) + 1
        BY <3>2, <4>2, LastAppend
      <4>4. Len(rcvd["B"]) + 1 <= Len(posted["A"]) + faults
        BY <1>2, <2>3, <2>9 DEF Credit
      <4>5. Len(rcvd["B"]) \in Nat /\ Len(posted["A"]) \in Nat /\ faults \in Nat
        BY CreditNats
      <4>6. (IF outcome'["A"] = "pending" /\ ~AckOnWay' THEN 1 ELSE 0) = 0
        BY <4>1
      <4>7. Len(rcvd'["B"]) + 0 <= Len(posted'["A"]) + faults'
        BY <1>1, <4>3, <4>4, <4>5
      <4> QED BY <1>3, <4>1, <4>3, <4>6, <4>7 DEF Credit
    <3> QED BY <2>5, <3>1, <3>2
  <2> QED BY <1>1, <1>4, <1>5, <2>1, <2>8, <2>10, RxReadyHears, LinkNext
<1> QED BY <1>6, <1>7

LEMMA RxStringLink ==
  ASSUME LinkInv, Reliable, Reliable', NEW e \in Ends, RxString(e)
  PROVE  LinkOK'
<1>1. e = "B" /\ Other(e) = "A"
  <2>1. app[e] = "ready"
    BY DEF RxString
  <2> QED BY <2>1, WhoTalks DEF Other
<1>2. /\ AuxTyped /\ settings \in Settings /\ SenderSure /\ ReceiverSure /\ LineSure /\ Credit
      /\ "A" \in Ends /\ "B" \in Ends /\ Acks = 1 /\ Talkers = {"A"}
      /\ line["A"] \in Seq(Bytes) /\ port["B"] \in Ports
  BY LinkFacts DEF AuxTyped
<1>3. app["B"] = "ready" /\ port["B"].len > 0 /\ ~port["B"].rxFlag
  <2>1. app["B"] = "ready"
    BY <1>1 DEF RxString
  <2> QED BY <2>1, LinkFacts
<1>4. /\ UNCHANGED settings /\ UNCHANGED <<due, posted, outcome, rcvd, faults, refusals, hit>>
      /\ port' = [port EXCEPT !["B"].len = 0, !["B"].buf = <<>>, !["B"].first = 0]
      /\ line' = [line EXCEPT !["A"] = @ \o IF ackMode THEN Repeat(ACK, Acks) ELSE <<>>]
      /\ app' = [app EXCEPT !["B"] = AfterListen("B")]
  BY <1>1, <1>3 DEF RxString
<1> DEFINE q == [port["B"] EXCEPT !.len = 0, !.buf = <<>>, !.first = 0]
<1>5. port'["B"] = q /\ port'["A"] = port["A"]
  BY <1>2, <1>4 DEF AuxTyped
<1>6. q \in Ports /\ ~q.rxFlag /\ q.state = port["B"].state
  <2>1. 0 \in Bytes /\ <<>> \in Seq(Bytes)
    BY DEF Bytes
  <2> QED BY <1>2, <1>3, <2>1 DEF Ports
<1> HIDE DEF q
<1>7. app'["B"] = "listen" /\ app'["A"] = app["A"]
  BY <1>2, <1>4 DEF AuxTyped, AfterListen
<1>8. line'["B"] = line["B"] /\ line'["A"] = line["A"] \o (IF ackMode THEN <<ACK>> ELSE <<>>)
  <2>1. Repeat(ACK, Acks) = <<ACK>>
    BY <1>2 DEF Repeat
  <2> QED BY <1>2, <1>4, <2>1 DEF AuxTyped
<1>9. ~Owed' /\ Owed = ackMode /\ Latest' = Latest
  <2>1. ackMode \in BOOLEAN
    BY <1>2, SettingsFacts
  <2> QED BY <1>3, <1>4, <1>7, <2>1 DEF Owed, Latest, settings
<1>10. /\ ackMode => line["A"] = <<>> /\ line'["A"] = <<ACK>> /\ port["A"].state = "WAIT_ACK"
                     /\ app["A"] # "again"
       /\ ~ackMode => line'["A"] = line["A"]
  <2>1. <<>> \o <<ACK>> = <<ACK>> /\ line["A"] \o <<>> = line["A"]
    BY <1>2
  <2> QED BY <1>2, <1>8, <1>9, <2>1 DEF LineSure, Sender
<1>11. <<ACK>> # <<>> /\ Len(<<ACK>>) = 1 /\ <<ACK>>[1] # SOH
  BY DEF ACK, SOH
<1>12. (AckOnWay' <=> AckOnWay) /\ (Awaited' <=> Awaited)
  BY <1>4, <1>5, <1>7, <1>8, <1>9, <1>10, <1>11 DEF AckOnWay, Awaited, Sender
<1>13. Reader(port["B"]) = FreshReader /\ Reader(q) = FreshReader
  BY <1>2, <1>3, <1>6, IdleReader
<1>14. SenderSure'
  <2>1. Package(Latest)' = Package(Latest)
    BY <1>4, <1>9, SameTrack
  <2> QED BY <1>2, <1>4, <1>5, <1>7, <2>1 DEF SenderSure, Sender
<1>15. ReceiverSure'
  BY <1>2, <1>4, <1>5, <1>6, <1>7 DEF ReceiverSure, Receiver, BufOK
<1>16. LineSure'
  <2>1. due["A"] \notin {"resend", "clear", "set"}
    BY <1>2, <1>3 DEF LineSure
  <2> QED BY <1>2, <1>4, <1>5, <1>7, <1>9, <1>10, <1>11, <2>1 DEF LineSure, Sender
<1>17. Credit'
  BY <1>4, <1>7, <1>12, CreditKept
<1>18. ASSUME NEW S, Calm(S), Track(S, Channel) PROVE Track(S, Channel')
  <2>1. Channel'.ear = Channel.ear /\ Channel'.bytes = Channel.bytes /\ Channel'.struck = Channel.struck
        /\ Channel'.posted = Channel.posted /\ Channel'.faults = Channel.faults /\ Channel'.tob = Channel.tob
    BY <1>4, <1>5, <1>8, <1>13, ChannelNow, ChannelNext
  <2>2. Channel.awaited => Channel'.awaited
    BY <1>12, ChannelNow, ChannelNext
  <2> QED BY <1>18, <2>1, <2>2, TrackKept
<1> QED BY <1>4, <1>14, <1>15, <1>16, <1>17, <1>18, LinkNext

LEMMA TimerLooksLink ==
  ASSUME LinkInv, Reliable, Reliable', NEW e \in Ends, TimerLooks(e)
  PROVE  LinkOK'
<1>1. /\ AuxTyped /\ settings \in Settings /\ SenderSure /\ ReceiverSure /\ LineSure /\ Credit
      /\ "A" \in Ends /\ "B" \in Ends /\ timing = "timely" /\ port["B"] \in Ports
  BY LinkFacts DEF AuxTyped
<1>2. /\ UNCHANGED settings
      /\ UNCHANGED <<port, line, app, posted, outcome, rcvd, got, faults, refusals, hit>>
  BY DEF TimerLooks, history
<1>3. (Owed' <=> Owed) /\ (AckOnWay' <=> AckOnWay) /\ (Awaited' <=> Awaited) /\ Latest' = Latest
  BY <1>2 DEF Owed, AckOnWay, Awaited, Sender, Latest, settings
<1>4. Credit'
  BY <1>2, <1>3, CreditKept
<1>5. \/ /\ due'["A"] = "resend" /\ due'["B"] = due["B"]
         /\ port["A"].state = "WAIT_ACK" /\ TorDue("A") /\ app["A"] # "again"
      \/ /\ due'["A"] = due["A"] /\ due'["B"] = "tob" /\ line["B"] = <<>>
  <2>1. CASE e = "A"
    <3>1. /\ due' = [due EXCEPT !["A"] = "resend"] /\ port["A"].state = "WAIT_ACK" /\ TorDue("A")
          /\ app["A"] # "again"
      <4>1. ~port["A"].rxFlag
        BY <1>1 DEF SenderSure, Sender
      <4> QED BY <1>1, <2>1, <4>1 DEF TimerLooks, CanLook
    <3> QED BY <1>1, <3>1 DEF AuxTyped
  <2>2. CASE e = "B"
    <3>1. due' = [due EXCEPT !["B"] = "tob"] /\ line["B"] = <<>>
      <4>1. port["B"].state # "WAIT_ACK"
        BY <1>1 DEF ReceiverSure, Receiver
      <4> QED BY <1>1, <2>2, <4>1 DEF TimerLooks, TobDue
    <3> QED BY <1>1, <3>1 DEF AuxTyped
  <2> QED BY <2>1, <2>2 DEF Ends
<1>6. SenderSure'
  <2>1. Package(Latest)' = Package(Latest)
    BY <1>2, <1>3, SameTrack
  <2>2. due'["A"] # "tob"
    BY <1>1, <1>5 DEF SenderSure
  <2> QED BY <1>1, <1>2, <2>1, <2>2 DEF SenderSure, Sender
<1>7. ReceiverSure'
  <2>1. due'["B"] \notin {"resend", "clear", "set"}
    BY <1>1, <1>5 DEF ReceiverSure
  <2> QED BY <1>1, <1>2, <2>1 DEF ReceiverSure, Receiver, BufOK
<1>8. Reader(Receiver)' = Reader(Receiver)
  <2>1. Receiver' = Receiver
    BY <1>2 DEF Receiver
  <2> QED BY <1>2, <2>1, SameTrack
<1>9. LineSure'
  <2>1. due'["A"] \in {"resend", "clear", "set"} =>
          /\ port["A"].state = "WAIT_ACK" /\ line["A"] = <<>> /\ app["B"] # "ready"
          /\ line["B"] = <<>> /\ Reader(Receiver) = FreshReader
    <3>1. CASE due["A"] \in {"resend", "clear", "set"}
      BY <1>1, <3>1 DEF LineSure, Sender
    <3>2. CASE due["A"] \notin {"resend", "clear", "set"} /\ due'["A"] \in {"resend", "clear", "set"}
      <4>1. port["A"].state = "WAIT_ACK" /\ TorDue("A")
        BY <1>5, <3>2
      <4>2. /\ line["A"] = <<>> /\ line["B"] = <<>> /\ app["B"] # "ready"
            /\ port["B"].state = "IDLE" \/ ~port["B"].rxFlag
        BY <1>1, <4>1 DEF TorDue, Quiet, Other
      <4>3. Reader(Receiver) = FreshReader
        BY <1>1, <4>2, IdleReader DEF Receiver
      <4> QED BY <4>1, <4>2, <4>3
    <3> QED BY <3>1, <3>2
  <2>2. app["A"] = "again" => due'["A"] = "none"
    BY <1>1, <1>5 DEF LineSure
  <2> QED BY <1>1, <1>2, <1>3, <1>8, <2>1, <2>2 DEF LineSure, Sender
<1>10. \A S : Calm(S) /\ Track(S, Channel) => Track(S, Channel')
  <2>1. due'["B"] = "tob" => due["B"] = "tob" \/ line["B"] = <<>>
    BY <1>5
  <2> QED BY <1>2, <1>3, <2>1, ChannelKept
<1> QED BY <1>2, <1>4, <1>6, <1>7, <1>9, <1>10, LinkNext

\* The timer thread looks at the count: it goes on, or the wait is over.
LEMMA TimerCountsLink ==
  ASSUME LinkInv, Reliable, Reliable', NEW e \in Ends, TimerCounts(e)
  PROVE  LinkOK'
<1>1. /\ AuxTyped /\ settings \in Settings /\ SenderSure /\ ReceiverSure /\ LineSure /\ Credit
      /\ "A" \in Ends /\ "B" \in Ends /\ port["A"] \in Ports
  BY LinkFacts DEF AuxTyped
<1>2. e = "A"
  <2>1. e # "B"
    BY <1>1 DEF TimerCounts, ReceiverSure
  <2> QED BY <2>1 DEF Ends
<1>3. /\ due["A"] = "resend" /\ UNCHANGED settings
      /\ UNCHANGED <<line, app, posted, outcome, rcvd, got, faults, refusals, hit>>
      /\ \/ /\ due' = [due EXCEPT !["A"] = "clear"] \/ due' = [due EXCEPT !["A"] = "set"]
            /\ UNCHANGED port
         \/ /\ due' = [due EXCEPT !["A"] = "none"]
            /\ port' = [port EXCEPT !["A"] = Exhausted(@)]
  BY <1>2 DEF TimerCounts, history
<1>4. /\ port["A"].state = "WAIT_ACK" /\ line["A"] = <<>> /\ app["B"] # "ready"
      /\ line["B"] = <<>> /\ Reader(port["B"]) = FreshReader
  BY <1>1, <1>3 DEF LineSure, Sender, Receiver
<1>5. /\ app["A"] = "wait" /\ port["A"].status = "BUSY" /\ ~port["A"].rxFlag
      /\ port["A"].tx = Package(Latest) /\ posted["A"] # <<>> /\ outcome["A"] = "pending"
  <2>1. app["A"] # "talk" /\ app["A"] # "again"
    BY <1>1, <1>3, <1>4 DEF SenderSure, LineSure, Sender
  <2> QED BY <1>1, <2>1 DEF SenderSure, Sender
<1>6. /\ port'["B"] = port["B"] /\ due'["B"] = due["B"]
      /\ port'["A"].tx = port["A"].tx /\ port'["A"].status = "BUSY" /\ ~port'["A"].rxFlag
      /\ \/ due'["A"] \in {"clear", "set"} /\ port'["A"].state = "WAIT_ACK"
         \/ due'["A"] = "none" /\ port'["A"].state = "IDLE"
  <2>1. CASE /\ due' = [due EXCEPT !["A"] = "clear"] \/ due' = [due EXCEPT !["A"] = "set"]
             /\ UNCHANGED port
    BY <1>1, <1>4, <1>5, <2>1 DEF AuxTyped
  <2>2. CASE /\ due' = [due EXCEPT !["A"] = "none"]
             /\ port' = [port EXCEPT !["A"] = Exhausted(@)]
    <3>1. port'["A"] = Exhausted(port["A"]) /\ port'["B"] = port["B"] /\ due'["A"] = "none"
          /\ due'["B"] = due["B"]
      BY <1>1, <2>2 DEF AuxTyped
    <3> QED BY <1>1, <1>5, <3>1, ExhaustedDoes
  <2> QED BY <1>3, <2>1, <2>2
<1>7. ~Owed /\ ~Owed' /\ Latest' = Latest /\ ~AckOnWay /\ ~AckOnWay'
  <2>1. <<>> # <<ACK>>
    OBVIOUS
  <2> QED BY <1>3, <1>4, <2>1 DEF Owed, Latest, AckOnWay
<1>8. SenderSure'
  <2>1. Package(Latest)' = Package(Latest)
    BY <1>3, <1>7, SameTrack
  <2>2. due'["A"] # "tob" /\ port'["A"].state \in {"IDLE", "WAIT_ACK"}
    BY <1>6
  <2> QED BY <1>3, <1>5, <1>6, <2>1, <2>2 DEF SenderSure, Sender
<1>9. ReceiverSure'
  BY <1>1, <1>3, <1>6 DEF ReceiverSure, Receiver, BufOK
<1>10. LineSure'
  <2>1. Reader(Receiver)' = FreshReader
    BY <1>3, <1>4, <1>6, SameTrack DEF Receiver
  <2> QED BY <1>3, <1>4, <1>5, <1>6, <1>7, <2>1 DEF LineSure, Sender
<1>11. Credit'
  BY <1>3, <1>7, CreditKept
<1>12. ASSUME NEW S, Calm(S), Track(S, Channel) PROVE Track(S, Channel')
  <2>1. Channel'.bytes = <<>> /\ Channel'.ear = FreshReader
    BY <1>3, <1>4, <1>6, ChannelNext
  <2> QED BY <2>1, TrackCleared
<1> QED BY <1>3, <1>8, <1>9, <1>10, <1>11, <1>12, LinkNext

LEMMA TimerResendsLink ==
  ASSUME LinkInv, Reliable, Reliable', NEW e \in Ends, TimerResends(e)
  PROVE  LinkOK'
<1>1. /\ AuxTyped /\ settings \in Settings /\ SenderSure /\ ReceiverSure /\ LineSure /\ Credit
      /\ "A" \in Ends /\ "B" \in Ends /\ PortOK(port["A"]) /\ refusals = 0
      /\ line["A"] \in Seq(Bytes) /\ line["B"] \in Seq(Bytes)
  BY LinkFacts DEF AuxTyped
<1>2. e = "A" /\ Other(e) = "B"
  <2>1. e # "B"
    BY <1>1 DEF TimerResends, ReceiverSure
  <2> QED BY <2>1 DEF Ends, Other
<1> DEFINE p == port["A"]
           flag == due["A"] = "set"
<1>3. PICK r \in ResendPackage(p, flag) :
        /\ port' = [port EXCEPT !["A"] = r.port]
        /\ line' = [line EXCEPT !["B"] = @ \o r.bytes]
        /\ CountRefusal(r)
  BY <1>2 DEF TimerResends
<1>4. /\ due["A"] \in {"clear", "set"} /\ due' = [due EXCEPT !["A"] = "none"] /\ UNCHANGED settings
      /\ UNCHANGED <<app, posted, outcome, rcvd, got, faults, hit>>
  BY <1>2 DEF TimerResends, history
<1>5. /\ port["A"].state = "WAIT_ACK" /\ line["A"] = <<>> /\ app["B"] # "ready"
      /\ line["B"] = <<>> /\ Reader(port["B"]) = FreshReader
  BY <1>1, <1>4 DEF LineSure, Sender, Receiver
<1>6. /\ app["A"] = "wait" /\ p.status = "BUSY" /\ ~p.rxFlag /\ p.tx = Package(Latest)
      /\ posted["A"] # <<>> /\ outcome["A"] = "pending"
  <2>1. app["A"] # "talk" /\ app["A"] # "again"
    BY <1>1, <1>4, <1>5 DEF SenderSure, LineSure, Sender
  <2> QED BY <1>1, <2>1 DEF SenderSure, Sender
<1>7. Latest \in Messages /\ Package(Latest) # <<>> /\ Package(Latest) \in Seq(Bytes)
  <2>1. Latest \in Messages
    BY <1>6, LinkFacts DEF Latest
  <2> QED BY <1>1, <2>1, PackageType
<1>8. /\ r.port.tx = p.tx /\ r.port.status = "BUSY" /\ ~r.port.rxFlag
      /\ r.bytes = Package(Latest) /\ r.port.state = "WAIT_ACK"
  <2>1. r.bytes # <<>>
    <3>1. refusals' = 0
      BY DEF Reliable
    <3> QED BY <1>1, <1>3, <3>1 DEF CountRefusal
  <2>2. PortOK(p) /\ p.state = "WAIT_ACK" /\ flag \in BOOLEAN
    BY <1>1, <1>5
  <2> HIDE DEF p, flag
  <2> QED BY <1>3, <1>6, <2>1, <2>2, ResendPackageDoes
<1> HIDE DEF p, flag
<1>9. /\ port'["A"] = r.port /\ port'["B"] = port["B"] /\ line'["A"] = line["A"]
      /\ line'["B"] = line["B"] \o r.bytes /\ due'["A"] = "none" /\ due'["B"] = due["B"]
  BY <1>1, <1>3, <1>4 DEF AuxTyped
<1>10. ~Owed /\ ~Owed' /\ Latest' = Latest /\ ~AckOnWay /\ ~AckOnWay'
  <2>1. <<>> # <<ACK>>
    OBVIOUS
  <2> QED BY <1>4, <1>5, <1>9, <2>1 DEF Owed, Latest, AckOnWay
<1>11. SenderSure'
  <2>1. Package(Latest)' = Package(Latest)
    BY <1>4, <1>10, SameTrack
  <2> QED BY <1>1, <1>4, <1>6, <1>8, <1>9, <2>1 DEF SenderSure, Sender
<1>12. ReceiverSure'
  BY <1>1, <1>4, <1>9 DEF ReceiverSure, Receiver, BufOK
<1>13. LineSure'
  BY <1>4, <1>5, <1>6, <1>9, <1>10 DEF LineSure
<1>14. Credit'
  BY <1>4, <1>10, CreditKept
<1>15. ASSUME NEW S, Calm(S), Track(S, Channel) PROVE Track(S, Channel')
  <2>1. Channel.bytes = <<>> /\ Channel.ear = FreshReader /\ Channel'.ear = FreshReader
    BY <1>5, <1>9, ChannelNow, ChannelNext
  <2>2. Resting(Channel)
    BY <2>1 DEF Resting
  <2>3. Awaited'
    BY <1>4, <1>5, <1>6, <1>8, <1>9, <1>10 DEF Awaited, Sender
  <2>4. Channel'.bytes = Channel.bytes \o Package(Last(Channel'.posted)) /\ Channel.bytes \in Seq(Bytes)
    BY <1>1, <1>4, <1>8, <1>9, ChannelNow, ChannelNext, ZenonT(30) DEF Latest
  <2>5. Channel'.posted # <<>> /\ Last(Channel'.posted) \in Messages /\ Channel'.awaited
    BY <1>4, <1>6, <1>7, <2>3, ChannelNow, ChannelNext DEF Latest
  <2>6. Channel'.ear = Channel.ear /\ Channel'.struck = Channel.struck /\ Channel'.faults = Channel.faults
        /\ Channel'.tob = Channel.tob
    BY <1>4, <1>9, ChannelNow, ChannelNext
  <2> QED BY <1>15, <2>2, <2>4, <2>5, <2>6, TrackSent
<1> QED BY <1>4, <1>11, <1>12, <1>13, <1>14, <1>15, LinkNext

LEMMA TimerDiscardsLink ==
  ASSUME LinkInv, Reliable, Reliable', NEW e \in Ends, TimerDiscards(e)
  PROVE  LinkOK'
<1>1. /\ AuxTyped /\ settings \in Settings /\ SenderSure /\ ReceiverSure /\ LineSure /\ Credit
      /\ "A" \in Ends /\ "B" \in Ends /\ port["B"] \in Ports
  BY LinkFacts DEF AuxTyped
<1>2. e = "B"
  <2>1. e # "A"
    BY <1>1 DEF TimerDiscards, SenderSure
  <2> QED BY <2>1 DEF Ends
<1> DEFINE q == [Discard(port["B"]) EXCEPT !.buf = <<>>]
<1>3. /\ due["B"] = "tob" /\ due' = [due EXCEPT !["B"] = "none"] /\ UNCHANGED settings
      /\ UNCHANGED <<line, app, posted, outcome, rcvd, got, faults, refusals, hit>>
      /\ port' = [port EXCEPT !["B"] = q]
  BY <1>1, <1>2 DEF TimerDiscards, history, AuxTyped
<1>4. q \in Ports /\ q.len = 0 /\ ~q.rxFlag /\ q.state = "IDLE"
  <2>1. <<>> \in Seq(Bytes)
    OBVIOUS
  <2> QED BY <1>1, <2>1 DEF Discard, Ports, States
<1> HIDE DEF q
<1>5. port'["B"] = q /\ port'["A"] = port["A"] /\ due'["A"] = due["A"] /\ due'["B"] = "none"
  BY <1>1, <1>3 DEF AuxTyped
<1>6. app["B"] # "ready"
  BY <1>3, LinkFacts
<1>7. (Owed' <=> Owed) /\ (AckOnWay' <=> AckOnWay) /\ (Awaited' <=> Awaited) /\ Latest' = Latest
  BY <1>3, <1>5 DEF Owed, AckOnWay, Awaited, Sender, Latest, settings
<1>8. Credit'
  BY <1>3, <1>7, CreditKept
<1>9. SenderSure'
  <2>1. Package(Latest)' = Package(Latest)
    BY <1>3, <1>7, SameTrack
  <2> QED BY <1>1, <1>3, <1>5, <2>1 DEF SenderSure, Sender
<1>10. ReceiverSure'
  BY <1>1, <1>3, <1>4, <1>5, <1>6 DEF ReceiverSure, Receiver, BufOK
<1>11. Reader(q) = FreshReader
  BY <1>4, IdleReader
<1>12. LineSure'
  <2>1. Reader(Receiver)' = FreshReader
    BY <1>3, <1>5, <1>11, SameTrack DEF Receiver
  <2> QED BY <1>1, <1>3, <1>5, <1>7, <2>1 DEF LineSure, Sender
<1>13. ASSUME NEW S, Calm(S), Track(S, Channel) PROVE Track(S, Channel')
  <2>1. Channel.tob /\ Channel'.ear = FreshReader /\ ~Channel'.tob
    BY <1>3, <1>5, <1>11, ChannelNow, ChannelNext
  <2>2. Channel'.bytes = Channel.bytes /\ Channel'.struck = Channel.struck
        /\ Channel'.posted = Channel.posted /\ Channel'.faults = Channel.faults
    BY <1>3, ChannelNow, ChannelNext
  <2>3. Channel'.awaited = Channel.awaited
    <3>1. Channel'.awaited = Awaited' /\ Channel.awaited = Awaited
      BY ChannelNow, ChannelNext
    <3>2. Awaited \in BOOLEAN /\ Awaited' \in BOOLEAN
      BY DEF Awaited
    <3> QED BY <1>7, <3>1, <3>2
  <2> QED BY <1>13, <2>1, <2>2, <2>3, TrackDropped
<1> QED BY <1>3, <1>8, <1>9, <1>10, <1>12, <1>13, LinkNext

\* A fault on the line to the sender strikes its answer, which is not forged.
LEMMA AnswerStruckLink ==
  ASSUME LinkInv, Reliable, Reliable', Lose("A") \/ Damage("A")
  PROVE  LinkOK'
<1>1. /\ AuxTyped /\ settings \in Settings /\ SenderSure /\ ReceiverSure /\ LineSure /\ Credit
      /\ "A" \in Ends /\ "B" \in Ends /\ Talkers = {"A"} /\ line["A"] \in Seq(Bytes)
  BY LinkFacts DEF AuxTyped
<1>2. line["A"] # <<>>
  BY DEF Lose, Damage
<1>3. Len(line["A"]) = 1 /\ port["A"].state = "WAIT_ACK" /\ ~Owed /\ app["A"] # "again"
      /\ due["A"] \notin {"resend", "clear", "set"}
  BY <1>1, <1>2 DEF LineSure, Sender
<1>4. PICK bytes : /\ Strike("A", bytes)
                   /\ bytes = <<>> \/ (Len(bytes) = 1 /\ bytes[1] \notin {ACK, SOH})
  <2>1. CASE Lose("A")
    <3>1. Tail(line["A"]) = <<>>
      <4> DEFINE y == Tail(line["A"])
      <4>1. y \in Seq(Bytes) /\ Len(y) = 0
        BY <1>1, <1>2, <1>3
      <4> HIDE DEF y
      <4>2. y = <<>>
        BY <4>1
      <4> QED BY <4>2 DEF y
    <3> QED BY <2>1, <3>1 DEF Lose
  <2>2. CASE Damage("A")
    <3>1. PICK b \in (Noise \ Forged("A")) \ {line["A"][1]} : Strike("A", [line["A"] EXCEPT ![1] = b])
      BY <2>2 DEF Damage
    <3>2. b \notin {ACK, SOH} /\ b \in Bytes
      BY <1>1, <3>1, AuxAssumption DEF Forged
    <3>3. Len([line["A"] EXCEPT ![1] = b]) = 1 /\ [line["A"] EXCEPT ![1] = b][1] = b
      BY <1>1, <1>3, <3>2
    <3> QED BY <3>1, <3>2, <3>3
  <2> QED BY <2>1, <2>2
<1>5. /\ UNCHANGED settings /\ faults' = faults + 1
      /\ UNCHANGED <<port, due, app, posted, outcome, rcvd, got, refusals>>
      /\ line'["A"] = bytes /\ line'["B"] = line["B"] /\ hit'["B"] = hit["B"]
  <2>1. /\ line' = [line EXCEPT !["A"] = bytes] /\ hit' = [hit EXCEPT !["A"] = bytes # <<>>]
        /\ UNCHANGED settings /\ faults' = faults + 1
        /\ UNCHANGED <<port, due, app, posted, outcome, rcvd, got, refusals>>
    BY <1>4 DEF Strike, history
  <2> QED BY <1>1, <2>1 DEF AuxTyped
<1>6. ~Owed' /\ Latest' = Latest
  BY <1>3, <1>5 DEF Owed, Latest, settings
<1>7. ~AckOnWay' /\ ~Awaited
  <2>1. <<ACK>> # <<>> /\ <<ACK>>[1] = ACK
    OBVIOUS
  <2> QED BY <1>2, <1>4, <1>5, <1>6, <2>1 DEF AckOnWay, Awaited
<1>8. Credit'
  BY <1>5, <1>7, CreditKept
<1>9. SenderSure'
  <2>1. Package(Latest)' = Package(Latest)
    BY <1>5, <1>6, SameTrack
  <2> QED BY <1>1, <1>5, <2>1 DEF SenderSure, Sender
<1>10. ReceiverSure'
  BY <1>1, <1>5 DEF ReceiverSure, Receiver, BufOK
<1>11. LineSure'
  BY <1>3, <1>4, <1>5, <1>6 DEF LineSure, Sender
<1>12. \A S : Calm(S) /\ Track(S, Channel) => Track(S, Channel')
  <2>1. faults' # 0
    BY <1>5, CreditNats
  <2> QED BY <1>5, <1>7, <2>1, ChannelKept
<1> QED BY <1>5, <1>8, <1>9, <1>10, <1>11, <1>12, LinkNext

\* A fault on the line to the receiver strikes a package.
LEMMA PackageStruckLink ==
  ASSUME LinkInv, Reliable, Reliable', Lose("B") \/ Damage("B")
  PROVE  LinkOK'
<1>1. /\ AuxTyped /\ settings \in Settings /\ SenderSure /\ ReceiverSure /\ LineSure /\ Credit
      /\ "A" \in Ends /\ "B" \in Ends /\ line["B"] \in Seq(Bytes)
      /\ posted["A"] # <<>> => Last(posted["A"]) \in Messages
  BY LinkFacts DEF AuxTyped
<1>2. line["B"] # <<>>
  BY DEF Lose, Damage
<1>3. PICK bytes :
        /\ Strike("B", bytes)
        /\ \/ "lose" \in FaultKinds /\ bytes = Tail(line["B"])
           \/ /\ "damage" \in FaultKinds /\ faults = 0
              /\ \E b \in Noise : bytes = [line["B"] EXCEPT ![1] = b]
  <2>1. CASE Lose("B")
    BY <2>1 DEF Lose
  <2>2. CASE Damage("B")
    BY <2>2 DEF Damage
  <2> QED BY <2>1, <2>2
<1>4. /\ UNCHANGED settings /\ faults' = faults + 1 /\ ~hit["B"]
      /\ UNCHANGED <<port, due, app, posted, outcome, rcvd, got, refusals>>
      /\ line'["B"] = bytes /\ line'["A"] = line["A"] /\ (hit'["B"] <=> bytes # <<>>)
  <2>1. /\ line' = [line EXCEPT !["B"] = bytes] /\ hit' = [hit EXCEPT !["B"] = bytes # <<>>]
        /\ UNCHANGED settings /\ faults' = faults + 1 /\ ~hit["B"]
        /\ UNCHANGED <<port, due, app, posted, outcome, rcvd, got, refusals>>
    BY <1>3 DEF Strike, history
  <2> QED BY <1>1, <2>1 DEF AuxTyped
<1>5. (Owed' <=> Owed) /\ (AckOnWay' <=> AckOnWay) /\ (Awaited' <=> Awaited) /\ Latest' = Latest
  BY <1>4 DEF Owed, AckOnWay, Awaited, Sender, Latest, settings
<1>6. Credit'
  BY <1>4, <1>5, CreditKept
<1>7. SenderSure'
  <2>1. Package(Latest)' = Package(Latest)
    BY <1>4, <1>5, SameTrack
  <2> QED BY <1>1, <1>4, <2>1 DEF SenderSure, Sender
<1>8. ReceiverSure'
  BY <1>1, <1>4 DEF ReceiverSure, Receiver, BufOK
<1>9. LineSure'
  <2>1. due["A"] \notin {"resend", "clear", "set"}
    BY <1>1, <1>2 DEF LineSure
  <2> QED BY <1>1, <1>4, <1>5, <2>1 DEF LineSure, Sender
<1>10. ASSUME NEW S, Calm(S), Track(S, Channel) PROVE Track(S, Channel')
  <2>1. /\ Channel.bytes \in Seq(Bytes) /\ Channel.bytes # <<>> /\ ~Channel.struck
        /\ Channel.posted # <<>> => Last(Channel.posted) \in Messages
    BY <1>1, <1>2, <1>4, ChannelNow
  <2>2. faults' # 0
    BY <1>4, CreditNats
  <2>3. /\ Channel'.struck <=> Channel'.bytes # <<>>
        /\ Channel'.faults # 0 /\ Channel'.ear = Channel.ear
        /\ Channel'.posted = Channel.posted /\ Channel'.tob = Channel.tob
    BY <1>4, <2>2, ChannelNow, ChannelNext
  <2>4. Channel'.awaited = Channel.awaited
    <3>1. Channel'.awaited = Awaited' /\ Channel.awaited = Awaited
      BY ChannelNow, ChannelNext
    <3>2. Awaited \in BOOLEAN /\ Awaited' \in BOOLEAN
      BY DEF Awaited
    <3> QED BY <1>5, <3>1, <3>2
  <2>5. \/ "lose" \in FaultKinds /\ Channel'.bytes = Tail(Channel.bytes)
        \/ /\ "damage" \in FaultKinds /\ Channel.faults = 0
           /\ \E b \in Noise : Channel'.bytes = [Channel.bytes EXCEPT ![1] = b]
    <3>1. Channel'.bytes = bytes /\ Channel.bytes = line["B"] /\ Channel.faults = faults
      BY <1>4, ChannelNow, ChannelNext
    <3> QED BY <1>3, <3>1
  <2> QED BY <1>10, <2>1, <2>3, <2>4, <2>5, TrackStruck
<1> QED BY <1>4, <1>6, <1>7, <1>8, <1>9, <1>10, LinkNext

LEMMA StutterLink ==
  ASSUME LinkInv, Reliable, UNCHANGED vars
  PROVE  LinkOK'
<1>1. /\ UNCHANGED settings
      /\ UNCHANGED <<port, line, due, app, posted, outcome, rcvd, got, faults, refusals, hit>>
  BY DEF vars, history
<1>2. SenderSure /\ ReceiverSure /\ LineSure /\ Credit
  BY LinkFacts
<1>3. (Owed' <=> Owed) /\ (AckOnWay' <=> AckOnWay) /\ (Awaited' <=> Awaited) /\ Latest' = Latest
  BY <1>1 DEF Owed, AckOnWay, Awaited, Sender, Latest, settings
<1>4. Credit'
  BY <1>1, <1>3, CreditKept
<1>5. SenderSure'
  <2>1. Package(Latest)' = Package(Latest)
    BY <1>1, <1>3, SameTrack
  <2> QED BY <1>1, <1>2, <2>1 DEF SenderSure, Sender
<1>6. ReceiverSure'
  BY <1>1, <1>2 DEF ReceiverSure, Receiver, BufOK
<1>7. LineSure'
  <2>1. Receiver' = Receiver
    BY <1>1 DEF Receiver
  <2>2. Reader(Receiver)' = Reader(Receiver)
    BY <1>1, <2>1, SameTrack
  <2> QED BY <1>1, <1>2, <1>3, <2>2 DEF LineSure, Sender
<1>8. \A S : Calm(S) /\ Track(S, Channel) => Track(S, Channel')
  BY <1>1, <1>3, ChannelKept
<1> QED BY <1>1, <1>4, <1>5, <1>6, <1>7, <1>8, LinkNext

LEMMA InitLink == Init /\ StopAndWait => LinkInv
<1> SUFFICES ASSUME Init, StopAndWait PROVE LinkInv
  OBVIOUS
<1>1. AuxInv
  BY InitAux
<1>2. "A" \in Ends /\ "B" \in Ends /\ OneWay
  BY DEF Ends, StopAndWait
<1>3. posted \in [Ends -> Seq(Messages)]
  BY DEF Init
<1>4. ASSUME Reliable PROVE LinkOK
  <2>1. mode # "STX" /\ settings \in Settings
    BY <1>1, <1>4 DEF Reliable, AuxInv, AuxTyped
  <2>2. PICK S : Calm(S)
    BY <2>1 DEF StopAndWait, Calm
  <2>3. /\ port["A"] = FreshPort /\ port["B"] = FreshPort /\ line["A"] = <<>> /\ line["B"] = <<>>
        /\ due["A"] = "none" /\ due["B"] = "none" /\ app["A"] = "talk" /\ app["B"] = "listen"
        /\ posted["A"] = <<>> /\ outcome["A"] = "none" /\ rcvd["B"] = <<>> /\ faults = 0
    BY <1>2 DEF Init, OneWay
  <2>4. FreshPort.state = "IDLE" /\ FreshPort.status = "FREE" /\ ~FreshPort.rxFlag /\ FreshPort.len = 0
    BY DEF FreshPort
  <2>5. ~Owed /\ ~AckOnWay
    <3>1. <<ACK>> # <<>>
      OBVIOUS
    <3> QED BY <2>3, <3>1 DEF Owed, AckOnWay
  <2>6. SenderSure
    BY <2>3, <2>4 DEF SenderSure, Sender
  <2>7. ReceiverSure
    BY <2>3, <2>4 DEF ReceiverSure, Receiver, BufOK
  <2>8. LineSure
    BY <2>3, <2>5 DEF LineSure
  <2>9. Credit
    BY <2>3, <2>5 DEF Credit
  <2>10. Track(S, Channel)
    <3>1. FreshPort \in Ports
      BY <1>1, <1>2, <2>3 DEF AuxInv, AuxTyped
    <3>2. Channel.bytes = <<>> /\ Channel.ear = FreshReader
      BY <2>3, <2>4, <3>1, IdleReader, ChannelNow
    <3> QED BY <3>2, TrackCleared
  <2> QED BY <2>2, <2>6, <2>7, <2>8, <2>9, <2>10 DEF LinkOK
<1>5. rcvd["A"] = <<>>
  BY <1>2 DEF Init
<1> QED BY <1>1, <1>2, <1>3, <1>4, <1>5 DEF LinkInv

\* The settings of a link do not change, and a refused write is not forgotten.
LEMMA ReliableBefore ==
  ASSUME AuxInv, [Next]_vars
  PROVE  UNCHANGED settings /\ (Reliable' => Reliable)
<1>1. UNCHANGED settings
  BY ZenonT(30) DEF Next, Call, Timer, TxString, TxReady, TxAgain, GiveUp, RxReady, RxString, TimerLooks, TimerCounts, TimerResends,
         TimerDiscards, Lose, Damage, Strike, Done, vars
<1>2. refusals' = 0 => refusals = 0
  <2>1. refusals \in Nat
    BY SettingsFacts DEF AuxInv, AuxTyped
  <2>2. UNCHANGED refusals \/ \E n \in {0, 1} : refusals' = refusals + n
    <3>1. ASSUME NEW r, CountRefusal(r) PROVE \E n \in {0, 1} : refusals' = refusals + n
      BY <3>1 DEF CountRefusal
    <3>2. ASSUME NEW e \in Ends, Call(e) PROVE UNCHANGED refusals \/ \E n \in {0, 1} : refusals' = refusals + n
      <4>1. ASSUME NEW m \in Messages, TxString(e, m) PROVE \E n \in {0, 1} : refusals' = refusals + n
        <5>1. PICK r : CountRefusal(r)
          BY <4>1 DEF TxString
        <5> QED BY <3>1, <5>1
      <4>2. ASSUME TxAgain(e) PROVE \E n \in {0, 1} : refusals' = refusals + n
        <5>1. PICK r : CountRefusal(r)
          BY <4>2 DEF TxAgain
        <5> QED BY <3>1, <5>1
      <4>3. TxReady(e) \/ GiveUp(e) \/ RxReady(e) \/ RxString(e) => UNCHANGED refusals
        BY DEF TxReady, GiveUp, RxReady, RxString
      <4> QED BY <3>2, <4>1, <4>2, <4>3 DEF Call
    <3>3. ASSUME NEW e \in Ends, Timer(e) PROVE UNCHANGED refusals \/ \E n \in {0, 1} : refusals' = refusals + n
      <4>1. ASSUME TimerResends(e) PROVE \E n \in {0, 1} : refusals' = refusals + n
        <5>1. PICK r : CountRefusal(r)
          BY <4>1 DEF TimerResends
        <5> QED BY <3>1, <5>1
      <4>2. TimerLooks(e) \/ TimerCounts(e) \/ TimerDiscards(e) => UNCHANGED refusals
        BY DEF TimerLooks, TimerCounts, TimerDiscards
      <4> QED BY <3>3, <4>1, <4>2 DEF Timer
    <3>4. (\E e \in Ends : Lose(e) \/ Damage(e)) \/ Done \/ UNCHANGED vars => UNCHANGED refusals
      BY DEF Lose, Damage, Strike, Done, vars
    <3> QED BY <3>2, <3>3, <3>4 DEF Next
  <2> QED BY <2>1, <2>2
<1> QED BY <1>1, <1>2 DEF Reliable, settings

\* What is posted is a message.
LEMMA PostedMessages ==
  ASSUME posted \in [Ends -> Seq(Messages)], [Next]_vars
  PROVE  posted' \in [Ends -> Seq(Messages)]
<1>1. ASSUME NEW e \in Ends, NEW m \in Messages, TxString(e, m) PROVE posted' \in [Ends -> Seq(Messages)]
  <2>1. posted' = [posted EXCEPT ![e] = Append(posted[e], m)] /\ Append(posted[e], m) \in Seq(Messages)
    BY <1>1 DEF TxString
  <2> QED BY <2>1
<1>2. (\E e \in Ends, m \in Messages : TxString(e, m)) \/ UNCHANGED posted
  BY DEF Next, Call, Timer, TxReady, TxAgain, GiveUp, RxReady, RxString, TimerLooks, TimerCounts, TimerResends,
         TimerDiscards, Lose, Damage, Strike, Done, vars, history
<1> QED BY <1>1, <1>2

\* Nothing is received at the end that talks.
LEMMA NothingAtSender ==
  ASSUME LinkInv, Reliable, [Next]_vars
  PROVE  rcvd'["A"] = <<>>
<1>1. AuxTyped /\ rcvd["A"] = <<>> /\ "A" \in Ends
  BY LinkFacts DEF LinkInv
<1>2. ASSUME NEW e \in Ends, RxReady(e) PROVE rcvd'["A"] = rcvd["A"]
  <2>1. e # "A"
    BY <1>2, RxReadyView
  <2>2. UNCHANGED rcvd \/ \E s : rcvd' = [rcvd EXCEPT ![e] = s]
    BY <1>2 DEF RxReady
  <2> QED BY <1>1, <2>1, <2>2 DEF AuxTyped
<1>3. (\E e \in Ends : RxReady(e)) \/ UNCHANGED rcvd
  BY DEF Next, Call, Timer, TxString, TxReady, TxAgain, GiveUp, RxString, TimerLooks, TimerCounts, TimerResends,
         TimerDiscards, Lose, Damage, Strike, Done, vars, history
<1> QED BY <1>1, <1>2, <1>3

LEMMA StepLink == LinkInv /\ [Next]_vars => LinkInv'
<1> SUFFICES ASSUME LinkInv, [Next]_vars PROVE LinkInv'
  OBVIOUS
<1>1. AuxInv' /\ posted' \in [Ends -> Seq(Messages)] /\ OneWay
  BY StepInv, PostedMessages DEF LinkInv
<1>2. ASSUME Reliable' PROVE LinkOK'
  <2>1. Reliable
    BY <1>2, ReliableBefore DEF LinkInv
  <2>2. ASSUME NEW e \in Ends, Call(e) PROVE LinkOK'
    BY <1>2, <2>1, <2>2, TxStringLink, TxReadyLink, TxAgainLink, GiveUpLink, RxReadyLink, RxStringLink DEF Call
  <2>3. ASSUME NEW e \in Ends, Timer(e) PROVE LinkOK'
    BY <1>2, <2>1, <2>3, TimerLooksLink, TimerCountsLink, TimerResendsLink,
          TimerDiscardsLink DEF Timer
  <2>4. ASSUME NEW e \in Ends, Lose(e) \/ Damage(e) PROVE LinkOK'
    BY <1>2, <2>1, <2>4, AnswerStruckLink, PackageStruckLink DEF Ends
  <2>5. CASE Done \/ UNCHANGED vars
    BY <2>1, <2>5, StutterLink DEF Done
  <2> QED BY <2>2, <2>3, <2>4, <2>5 DEF Next
<1>3. Reliable' => rcvd'["A"] = <<>>
  BY NothingAtSender, ReliableBefore DEF LinkInv
<1>4. OneWay' = OneWay
  BY DEF OneWay
<1> QED BY <1>1, <1>2, <1>3, <1>4 DEF LinkInv

LEMMA LinkInvariant == Spec /\ StopAndWait => []LinkInv
BY InitLink, StepLink, PTL DEF Spec

LEMMA SameLast == \A s : D!Last(s) = Last(s)
BY DEF D!Last, Last

\* What a sender's application sees of a step is a step of the abstract link.
LEMMA LinkDelivers ==
  ASSUME LinkInv, [Next]_vars, Reliable
  PROVE  D!Next \/ UNCHANGED D!vars
<1>1. /\ AuxTyped /\ posted \in [Ends -> Seq(Messages)] /\ SenderSure /\ ReceiverSure /\ Credit
      /\ "A" \in Ends /\ "B" \in Ends
  BY LinkFacts
<1>2. ASSUME NEW e \in Ends, NEW m \in Messages, TxString(e, m) PROVE D!Next
  <2>1. app[e] = "talk" /\ e = "A"
    BY <1>2, WhoTalks DEF TxString
  <2>2. outcome["A"] # "pending"
    BY <1>1, <2>1 DEF SenderSure
  <2>3. outcome' = [outcome EXCEPT !["A"] = "failed"] \/ outcome' = [outcome EXCEPT !["A"] = "pending"]
    BY <1>2, <2>1 DEF TxString
  <2>4. posted' = [posted EXCEPT !["A"] = Append(@, m)] /\ rcvd' = rcvd
    BY <1>2, <2>1 DEF TxString
  <2>5. /\ outcome'["A"] \in {"pending", "failed"} /\ posted'["A"] = Append(posted["A"], m)
        /\ rcvd'["B"] = rcvd["B"]
    BY <1>1, <2>3, <2>4 DEF AuxTyped
  <2>6. D!Post(m)
    BY <2>2, <2>5 DEF D!Post
  <2> QED BY <2>6 DEF D!Next
<1>3. ASSUME NEW e \in Ends, TxReady(e) PROVE D!Next \/ UNCHANGED D!vars
  <2>1. /\ outcome["A"] = "pending" /\ posted'["A"] = posted["A"] /\ rcvd'["B"] = rcvd["B"]
        /\ outcome'["A"] \in {"pending", "ok", "failed"}
        /\ outcome'["A"] = "ok" => line["A"] = <<ACK>>
    <3>1. e = "A" /\ UNCHANGED <<due, posted, rcvd, got, faults>> /\ outcome["A"] = "pending"
      BY <1>3, TxReadyView
    <3>2. outcome'["A"] \in {"pending", "ok", "failed"} /\ (outcome'["A"] = "ok" => line["A"] = <<ACK>>)
      BY <1>3, TxReadyView
    <3> QED BY <3>1, <3>2
  <2>2. CASE outcome'["A"] = "ok"
    <3>1. AckOnWay
      BY <2>1, <2>2 DEF AckOnWay
    <3>2. rcvd["B"] # <<>> /\ Last(rcvd["B"]) = Last(posted["A"])
      BY <1>1, <3>1 DEF Credit, Latest
    <3> QED BY <2>1, <2>2, <3>2, SameLast DEF D!Next, D!Confirm
  <2>3. CASE outcome'["A"] = "failed"
    BY <2>1, <2>3 DEF D!Next, D!Fail
  <2>4. CASE outcome'["A"] = "pending"
    BY <2>1, <2>4 DEF D!vars
  <2> QED BY <2>1, <2>2, <2>3, <2>4
<1>4. ASSUME NEW e \in Ends, GiveUp(e) PROVE D!Next
  <2>1. app[e] = "wait" /\ e = "A"
    BY <1>4, WhoTalks DEF GiveUp
  <2>2. outcome["A"] = "pending"
    BY <1>1, <2>1 DEF SenderSure
  <2>3. outcome' = [outcome EXCEPT !["A"] = "failed"] /\ posted' = posted /\ rcvd' = rcvd
    BY <1>4, <2>1 DEF GiveUp
  <2>4. outcome'["A"] = "failed"
    BY <1>1, <2>3 DEF AuxTyped
  <2> QED BY <2>2, <2>3, <2>4 DEF D!Next, D!Fail
<1>5. ASSUME NEW e \in Ends, RxReady(e) PROVE D!Next \/ UNCHANGED D!vars
  <2>1. posted' = posted /\ outcome' = outcome
    BY <1>5 DEF RxReady
  <2>2. CASE rcvd'["B"] = rcvd["B"]
    BY <2>1, <2>2 DEF D!vars
  <2>3. CASE rcvd'["B"] # rcvd["B"]
    <3> DEFINE w == Verdict(Reader(port["B"]), Head(line["B"]))
    <3>1. /\ line["B"] # <<>>
          /\ \E x \in Seq(Bytes) : w = <<Good(x)>> /\ rcvd'["B"] = Append(rcvd["B"], x)
      BY <1>5, <2>3, RxReadyView
    <3>2. PICK x \in Seq(Bytes) : w = <<Good(x)>> /\ rcvd'["B"] = Append(rcvd["B"], x)
      BY <3>1
    <3> HIDE DEF w
    <3>3. w # <<>>
      BY <3>2
    <3>4. Awaited /\ posted["A"] # <<>> /\ w \in {<<Good(Latest)>>, <<Bad>>}
      BY <1>5, <3>1, <3>3, RxReadyHears DEF w
    <3>5. x = Latest
      <4>1. \A y : <<Good(x)>> = <<Good(y)>> => x = y
        BY DEF Good
      <4>2. <<Good(x)>> # <<Bad>>
        BY DEF Good, Bad, ACK, NAK
      <4>3. <<Good(x)>> = <<Good(Latest)>>
        BY <3>2, <3>4, <4>2
      <4> QED BY <4>1, <4>3
    <3>6. outcome["A"] = "pending"
      BY <1>1, <3>4 DEF Awaited, SenderSure
    <3>7. D!Arrive
      BY <2>1, <3>2, <3>5, <3>6, SameLast DEF D!Arrive, Latest
    <3> QED BY <3>7 DEF D!Next
  <2> QED BY <2>2, <2>3
<1>6. ASSUME NEW e \in Ends, RxString(e) \/ Timer(e) \/ Lose(e) \/ Damage(e) PROVE UNCHANGED D!vars
  BY <1>6 DEF RxString, Timer, TimerLooks, TimerCounts, TimerResends, TimerDiscards, Lose, Damage, Strike,
              history, D!vars
<1>7. CASE Done \/ UNCHANGED vars
  BY <1>7 DEF Done, vars, history, D!vars
<1>8. ASSUME NEW e \in Ends, TxAgain(e) PROVE D!Next \/ UNCHANGED D!vars
  <2>1. app[e] = "again" /\ e = "A"
    BY <1>8, WhoTalks DEF TxAgain
  <2> DEFINE p == port["A"]
  <2>2. PICK r \in ResendPackage(p, TRUE) :
          Told("A", IF r.bytes = <<>> THEN [r.port EXCEPT !.status = "ERROR"] ELSE r.port)
    BY <1>8, <2>1 DEF TxAgain
  <2>3. posted' = posted /\ rcvd' = rcvd
    BY <1>8 DEF TxAgain
  <2>4. PortOK(p) /\ Talkers = {"A"}
    BY LinkFacts
  <2>5. outcome["A"] = "pending" /\ p.status = "BUSY"
    BY <1>1, <2>1 DEF SenderSure, Sender
  <2> HIDE DEF p
  <2>6. CASE r.bytes # <<>>
    <3>1. r.port \in Ports /\ r.port.status = "BUSY"
      BY <2>2, <2>4, <2>5, <2>6, ResendPackageDoes
    <3>2. Told("A", r.port)
      BY <2>2, <2>6
    <3>3. outcome'["A"] = "pending"
      BY <1>1, <2>4, <2>5, <3>1, <3>2, ToldDoes
    <3> QED BY <2>3, <2>5, <3>3 DEF D!vars
  <2>7. CASE r.bytes = <<>>
    <3> DEFINE q == [r.port EXCEPT !.status = "ERROR"]
    <3>1. r.port \in Ports
      <4>1. Keeps(r.port, p)
        BY <2>2, <2>4, ResendPackageOK
      <4> QED BY <4>1 DEF Keeps, PortOK
    <3>2. q \in Ports /\ q.status = "ERROR"
      BY <3>1 DEF Ports
    <3>3. Told("A", q)
      BY <2>2, <2>7
    <3> HIDE DEF q
    <3>4. outcome'["A"] = "failed"
      BY <1>1, <2>4, <3>2, <3>3, ToldDoes
    <3> QED BY <2>3, <2>5, <3>4 DEF D!Next, D!Fail
  <2> QED BY <2>6, <2>7
<1> QED BY <1>2, <1>3, <1>4, <1>5, <1>6, <1>7, <1>8 DEF Next, Call

----------------------------------------------------------------------------
\* Results.

\* The tables keep their types for any messages and noise: a message too long writes no
\* more than one byte behind the longest one accepted, and on a timely system the count of
\* retransmissions never wraps, whatever the line and the writes do
\* (OS_AUX_DataLinkRx_DLL, OS_AUX_ResendPackage).
THEOREM TypeCorrect == Spec => []TypeOK
<1>1. AuxInv /\ CountOK => TypeOK
  <2> SUFFICES ASSUME AuxInv, CountOK PROVE TypeOK
    OBVIOUS
  <2>1. AuxTyped
    BY DEF AuxInv
  <2>2. ASSUME NEW e \in Ends
        PROVE  port[e] \in Ports /\ Len(port[e].buf) <= BufferSize + 1
               /\ port[e].len \in {0, Len(port[e].buf)}
    BY DEF AuxInv, EndOK, PortOK
  <2>3. ASSUME NEW e \in Ends
        PROVE  port[e].resend \in 0..(IF timing = "timely" THEN MaxResend ELSE Counts - 1)
    <3>1. port[e].resend \in 0..(Counts-1) /\ Counts \in Nat /\ MaxResend \in Nat
      BY <2>2, AuxAssumption DEF Ports
    <3>2. timing = "timely" => port[e].resend <= MaxResend
      BY DEF CountOK, CountEnd
    <3> QED BY <3>1, <3>2
  <2> QED BY <2>1, <2>2, <2>3 DEF TypeOK, AuxTyped, Ports, States
<1> QED BY <1>1, CountInvariant, PTL

\* A message that was acknowledged is the application's or waits for it, whatever
\* the ends send to each other, however many ends talk, and whatever the line does:
\* no other message is stored over it and the timer thread does not discard it
\* (api_aux_rxready, api_aux_rxstring, OS_AUX_DataLinkRxTOB).
THEOREM AcknowledgedKeptCorrect == Spec => []AcknowledgedKept
<1>1. AuxInv => AcknowledgedKept
  BY DEF AuxInv, KeptEnd, Waiting, AcknowledgedKept, Reliable
<1> QED BY <1>1, AuxInvariant, PTL

\* A line without faults and messages that fit the buffer make the link a stop-and-wait
\* link, for any messages (OS_AUX_DataLinkRx_DLL, OS_AUX_DataLinkTx_DLL).
THEOREM FaultFreeStopAndWait ==
  ASSUME OneWay, Fits, FaultKinds = {}
  PROVE  StopAndWait
<1>1. ASSUME NEW m \in Messages, NEW x \in Transmissions(FreshReader, m)
      PROVE  x = Package(m)
  BY <1>1 DEF Transmissions, Lost, Damaged
<1>2. Harmless({FreshReader})
  BY <1>1 DEF Harmless
<1> QED BY <1>2 DEF StopAndWait

\* Where only one end talks and a fault makes no other message of one, each copy of a
\* message that the receiver takes without its acknowledgement reaching the sender is
\* paid for by a fault, so a line without faults delivers each message once
\* (api_aux_txstring, OS_AUX_ResendPackage, OS_AUX_DataLinkAck_DLL).
THEOREM DuplicatesPaidCorrect == Spec /\ StopAndWait => []DuplicatesPaid
<1>1. LinkInv => DuplicatesPaid
  <2> SUFFICES ASSUME LinkInv, Reliable, NEW e \in Ends
               PROVE  Len(rcvd[Other(e)]) <= Len(posted[e]) + faults
    BY DEF DuplicatesPaid
  <2>1. SenderSure /\ Credit /\ AuxTyped
    BY LinkFacts
  <2>2. CASE e = "A"
    <3> DEFINE n == Len(rcvd["B"])
               k == Len(posted["A"])
               owes == IF outcome["A"] = "pending" /\ ~AckOnWay THEN 1 ELSE 0
    <3>1. n \in Nat /\ k \in Nat /\ faults \in Nat /\ owes \in {0, 1} /\ n + owes <= k + faults
      BY <2>1, CreditNats DEF Credit
    <3> HIDE DEF n, k, owes
    <3>2. n <= k + faults
      BY <3>1
    <3> QED BY <2>2, <3>2 DEF n, k, Other
  <2>3. CASE e = "B"
    <3>1. rcvd["A"] = <<>> /\ posted["B"] \in Seq(Messages) /\ faults \in Nat
      BY CreditNats, LinkFacts DEF LinkInv
    <3> DEFINE k == Len(posted["B"])
    <3>2. Len(rcvd["A"]) = 0 /\ k \in Nat
      BY <3>1
    <3> HIDE DEF k
    <3>3. 0 <= k + faults
      BY <3>1, <3>2
    <3> QED BY <2>3, <3>2, <3>3 DEF k, Other
  <2> QED BY <2>2, <2>3 DEF Ends
<1> QED BY <1>1, LinkInvariant, PTL

\* There the link implements Delivery whatever the faults: a message is confirmed to its
\* sender only after it has arrived, and nothing arrives but the message posted last
\* (api_aux_txready, api_aux_rxready, OS_AUX_ResendPackage).
THEOREM DeliveryCorrect == Spec /\ StopAndWait => DeliveryRefined
<1>1. Init => (Reliable => D!Init)
  BY DEF Init, D!Init, Ends
<1>2. LinkInv /\ [Next]_vars => [Reliable => D!Next]_(D!vars)
  BY LinkDelivers
<1> QED BY <1>1, <1>2, LinkInvariant, PTL DEF Spec, DeliveryRefined
=============================================================================
