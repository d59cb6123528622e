----------------------------- MODULE SfsProofs -----------------------------
(***************************************************************************)
(* The RAM file system keeps its chains of clusters, erases what it frees, *)
(* and answers as FileStore does: for any number of file blocks and of     *)
(* clusters, of any size. The argument is about the chains as functions    *)
(* from places to clusters: every call cuts the free chain at some place   *)
(* and joins chains end to end.                                            *)
(***************************************************************************)
EXTENDS Sfs, FiniteSetTheorems, SequenceTheorems, Induction, TLAPS

----------------------------------------------------------------------------
\* Chain obeys its definition, and is determined by its links.

IsChain(c, next, head, len) ==
  c = [k \in 1..len |->
         IF k = 1 THEN head
         ELSE LET pre == c[k - 1] IN IF pre = 0 THEN 0 ELSE next[pre]]

LEMMA ChainExists ==
  ASSUME NEW next, NEW head
  PROVE  \A len \in Nat : \E c : IsChain(c, next, head, len)
<1> DEFINE S == {n \in Nat : \E c : IsChain(c, next, head, n)}
<1>1. 0 \in S
  <2>1. IsChain([k \in 1..0 |-> 0], next, head, 0)
    BY DEF IsChain
  <2> QED BY <2>1
<1>2. ASSUME NEW n \in S PROVE n + 1 \in S
  <2>1. PICK c : IsChain(c, next, head, n)
    OBVIOUS
  <2> DEFINE last == IF n + 1 = 1 THEN head ELSE IF c[n] = 0 THEN 0 ELSE next[c[n]]
             d == [k \in 1..(n + 1) |-> IF k = n + 1 THEN last ELSE c[k]]
  <2>2. ASSUME NEW k \in 1..(n + 1)
        PROVE  d[k] = IF k = 1 THEN head
                      ELSE LET pre == d[k - 1] IN IF pre = 0 THEN 0 ELSE next[pre]
    <3>1. CASE k = n + 1
      <4>1. k # 1 => d[k - 1] = c[n] /\ k - 1 = n
        BY <3>1
      <4>2. d[k] = last
        BY <3>1
      <4> QED BY <3>1, <4>1, <4>2
    <3>2. CASE k # n + 1
      <4>1. k \in 1..n /\ d[k] = c[k]
        BY <3>2
      <4>2. k # 1 => d[k - 1] = c[k - 1]
        BY <4>1
      <4> HIDE DEF d
      <4> QED BY <2>1, <4>1, <4>2 DEF IsChain
    <3> QED BY <3>1, <3>2
  <2>3. IsChain(d, next, head, n + 1)
    BY <2>2, Zenon DEF IsChain
  <2> QED BY <2>3
<1>3. S = Nat
  <2>1. S \in SUBSET Nat
    OBVIOUS
  <2> HIDE DEF S
  <2> QED BY <1>1, <1>2, <2>1, Induction
<1> QED BY <1>3

LEMMA ChainDef ==
  ASSUME NEW next, NEW head, NEW len \in Nat
  PROVE  /\ DOMAIN Chain(next, head, len) = 1..len
         /\ len > 0 => Chain(next, head, len)[1] = head
         /\ \A k \in 2..len :
              Chain(next, head, len)[k] =
                IF Chain(next, head, len)[k - 1] = 0 THEN 0
                ELSE next[Chain(next, head, len)[k - 1]]
<1> DEFINE c == Chain(next, head, len)
<1>1. IsChain(c, next, head, len)
  <2>1. \E f : IsChain(f, next, head, len)
    BY ChainExists
  <2> QED BY <2>1, Zenon DEF Chain, IsChain
<1> HIDE DEF c
<1>2. DOMAIN c = 1..len /\ (len > 0 => c[1] = head)
  BY <1>1 DEF IsChain
<1>3. \A k \in 2..len : c[k] = IF c[k - 1] = 0 THEN 0 ELSE next[c[k - 1]]
  BY <1>1 DEF IsChain
<1> QED BY <1>2, <1>3 DEF c

LEMMA ChainFunction ==
  ASSUME NEW next, NEW head, NEW len \in Nat
  PROVE  Chain(next, head, len) = [k \in 1..len |-> Chain(next, head, len)[k]]
<1> DEFINE c == Chain(next, head, len)
<1>1. IsChain(c, next, head, len)
  <2>1. \E f : IsChain(f, next, head, len)
    BY ChainExists
  <2> QED BY <2>1, Zenon DEF Chain, IsChain
<1> HIDE DEF c
<1>2. c = [k \in 1..len |-> c[k]]
  BY <1>1 DEF IsChain
<1> QED BY <1>2 DEF c

\* A chain is known by its head and its links.
LEMMA ChainIs ==
  ASSUME NEW next, NEW head, NEW len \in Nat, NEW s \in [1..len -> Cluster],
         len > 0 => s[1] = head,
         \A k \in 1..(len - 1) : next[s[k]] = s[k + 1]
  PROVE  Chain(next, head, len) = s
<1> DEFINE c == Chain(next, head, len)
           S == {k \in 1..len : c[k] = s[k]}
<1>1. /\ DOMAIN c = 1..len /\ (len > 0 => c[1] = head)
      /\ \A k \in 2..len : c[k] = IF c[k - 1] = 0 THEN 0 ELSE next[c[k - 1]]
  BY ChainDef
<1>2. \A k \in 1..len : s[k] \in Cluster /\ s[k] # 0
  BY DEF Cluster
<1>3. CASE len = 0
  <2>1. DOMAIN c = {} /\ DOMAIN s = {}
    BY <1>1, <1>3
  <2>2. \A k \in 1..len : c[k] = s[k]
    BY <1>3
  <2>3. c = [k \in 1..len |-> c[k]] /\ s = [k \in 1..len |-> s[k]]
    BY <1>1, <1>3, ChainFunction
  <2> HIDE DEF c
  <2> QED BY <2>2, <2>3 DEF c
<1>4. CASE len > 0
  <2>1. 1 \in S
    BY <1>1, <1>4
  <2>2. ASSUME NEW k \in 1..(len - 1), k \in S PROVE k + 1 \in S
    <3> HIDE DEF c
    <3>1. k + 1 \in 2..len /\ (k + 1) - 1 = k /\ c[k] = s[k] /\ k \in 1..len
      BY <2>2
    <3>2. c[k + 1] = next[s[k]]
      BY <1>1, <1>2, <3>1
    <3> QED BY <3>1, <3>2
  <2>3. 1..len \subseteq S
    <3> HIDE DEF S
    <3> QED BY <1>4, <2>1, <2>2, BoundedInduction
  <2>4. \A k \in 1..len : c[k] = s[k]
    BY <2>3
  <2>5. c = [k \in 1..len |-> c[k]]
    BY ChainFunction
  <2> HIDE DEF c
  <2> QED BY <2>4, <2>5 DEF c
<1> QED BY <1>3, <1>4

\* A shorter chain is the beginning of a longer one.
LEMMA ChainPrefix ==
  ASSUME NEW next, NEW head, NEW m \in Nat, NEW n \in Nat, m <= n
  PROVE  \A k \in 1..m : Chain(next, head, m)[k] = Chain(next, head, n)[k]
<1> DEFINE c == Chain(next, head, m)
           d == Chain(next, head, n)
           S == {k \in 1..m : c[k] = d[k]}
<1>1. /\ m > 0 => c[1] = head
      /\ \A k \in 2..m : c[k] = IF c[k - 1] = 0 THEN 0 ELSE next[c[k - 1]]
  BY ChainDef
<1>2. /\ n > 0 => d[1] = head
      /\ \A k \in 2..n : d[k] = IF d[k - 1] = 0 THEN 0 ELSE next[d[k - 1]]
  BY ChainDef
<1> HIDE DEF c, d
<1>3. CASE m > 0
  <2>1. 1 \in S
    BY <1>1, <1>2, <1>3
  <2>2. ASSUME NEW k \in 1..(m - 1), k \in S PROVE k + 1 \in S
    <3>1. k + 1 \in 2..m /\ k + 1 \in 2..n /\ (k + 1) - 1 = k /\ c[k] = d[k] /\ k + 1 \in 1..m
      BY <2>2
    <3> QED BY <1>1, <1>2, <3>1
  <2>3. 1..m \subseteq S
    <3> HIDE DEF S
    <3> QED BY <1>3, <2>1, <2>2, BoundedInduction
  <2> QED BY <2>3 DEF c, d
<1>4. CASE ~(m > 0)
  BY <1>4
<1> QED BY <1>3, <1>4

\* Behind its end a chain is 0.
LEMMA ChainPast ==
  ASSUME NEW next, NEW head, NEW m \in Nat, NEW n \in Nat, 0 < m, m <= n,
         Chain(next, head, n)[m] # 0, next[Chain(next, head, n)[m]] = 0
  PROVE  \A k \in (m + 1)..n : Chain(next, head, n)[k] = 0
<1> DEFINE d == Chain(next, head, n)
           S == {k \in (m + 1)..n : d[k] = 0}
<1>1. \A k \in 2..n : d[k] = IF d[k - 1] = 0 THEN 0 ELSE next[d[k - 1]]
  BY ChainDef
<1>2. d[m] # 0 /\ next[d[m]] = 0
  OBVIOUS
<1> HIDE DEF d
<1>3. CASE m + 1 <= n
  <2>1. m + 1 \in S
    <3>1. m + 1 \in 2..n /\ (m + 1) - 1 = m
      BY <1>3
    <3> QED BY <1>1, <1>2, <1>3, <3>1
  <2>2. ASSUME NEW k \in (m + 1)..(n - 1), k \in S PROVE k + 1 \in S
    <3>1. k + 1 \in 2..n /\ (k + 1) - 1 = k /\ d[k] = 0 /\ k + 1 \in (m + 1)..n
      BY <2>2
    <3> QED BY <1>1, <3>1
  <2>3. (m + 1)..n \subseteq S
    <3> HIDE DEF S
    <3> QED BY <1>3, <2>1, <2>2, BoundedInduction
  <2> QED BY <2>3 DEF d
<1>4. CASE ~(m + 1 <= n)
  BY <1>4
<1> QED BY <1>3, <1>4

----------------------------------------------------------------------------
\* The clusters in chains: s[o][k] is the cluster at place k of the chain of o.

Placed(own, n, s) ==
  /\ \A o \in own : n[o] \in Nat /\ s[o] \in [1..n[o] -> Cluster]
  /\ \A o, p \in own : \A k \in 1..n[o], l \in 1..n[p] :
       s[o][k] = s[p][l] => o = p /\ k = l
  /\ \A c \in Cluster : \E o \in own : \E k \in 1..n[o] : s[o][k] = c

Chained(own, n, s, next, pre) ==
  \A o \in own :
    /\ \A k \in 1..(n[o] - 1) : next[s[o][k]] = s[o][k + 1] /\ pre[s[o][k + 1]] = s[o][k]
    /\ n[o] > 0 => next[s[o][n[o]]] = 0

\* The first j clusters of the chain of p are moved behind the end of that of o.
MovedCount(n, o, p, j) == [n EXCEPT ![o] = n[o] + j, ![p] = n[p] - j]

MovedPlace(n, s, o, p, j) ==
  [s EXCEPT ![o] = [k \in 1..(n[o] + j) |-> IF k <= n[o] THEN s[o][k] ELSE s[p][k - n[o]]],
            ![p] = [k \in 1..(n[p] - j) |-> s[p][k + j]]]

Moved(own, n, s, o, p, j, m, t) ==
  /\ m \in [own -> Nat] /\ m[o] = n[o] + j /\ m[p] = n[p] - j
  /\ \A q \in own \ {o, p} : m[q] = n[q] /\ t[q] = s[q]
  /\ DOMAIN t = own
  /\ \A q \in own : t[q] \in [1..m[q] -> Cluster]
  /\ \A k \in 1..n[o] : t[o][k] = s[o][k] /\ k \in 1..m[o]
  /\ \A k \in 1..j : t[o][n[o] + k] = s[p][k] /\ n[o] + k \in 1..m[o]
  /\ \A k \in 1..m[p] : t[p][k] = s[p][k + j] /\ k + j \in 1..n[p]
  /\ \A k \in 1..m[o] : k \in 1..n[o] \/ (k - n[o] \in 1..j /\ n[o] + (k - n[o]) = k)
  /\ \A k \in 1..n[p] : k \in 1..j \/ (k - j \in 1..m[p] /\ (k - j) + j = k)

LEMMA MovedDef ==
  ASSUME NEW own, NEW n, NEW s, NEW o \in own, NEW p \in own, o # p,
         n \in [own -> Nat], DOMAIN s = own, NEW j \in 0..n[p], Placed(own, n, s),
         NEW m, NEW t, m = MovedCount(n, o, p, j), t = MovedPlace(n, s, o, p, j)
  PROVE  Moved(own, n, s, o, p, j, m, t)
<1>1. n[o] \in Nat /\ n[p] \in Nat /\ j \in Nat /\ n[p] - j \in Nat
  OBVIOUS
<1>2. m \in [own -> Nat] /\ m[o] = n[o] + j /\ m[p] = n[p] - j
  BY <1>1 DEF MovedCount
<1>3. \A q \in own \ {o, p} : m[q] = n[q] /\ t[q] = s[q]
  BY DEF MovedCount, MovedPlace
<1>4. DOMAIN t = own
  BY DEF MovedPlace
<1>5. t[o] = [k \in 1..(n[o] + j) |-> IF k <= n[o] THEN s[o][k] ELSE s[p][k - n[o]]]
  BY DEF MovedPlace
<1>6. t[p] = [k \in 1..(n[p] - j) |-> s[p][k + j]]
  BY DEF MovedPlace
<1>7. s[o] \in [1..n[o] -> Cluster] /\ s[p] \in [1..n[p] -> Cluster]
  BY DEF Placed
<1>8. t[o] \in [1..m[o] -> Cluster]
  <2>1. \A k \in 1..(n[o] + j) : k <= n[o] \/ k - n[o] \in 1..n[p]
    BY <1>1
  <2> QED BY <1>1, <1>2, <1>5, <1>7, <2>1
<1>9. t[p] \in [1..m[p] -> Cluster]
  <2>1. \A k \in 1..(n[p] - j) : k + j \in 1..n[p]
    BY <1>1
  <2> QED BY <1>1, <1>2, <1>6, <1>7, <2>1
<1>10. \A q \in own : t[q] \in [1..m[q] -> Cluster]
  BY <1>3, <1>8, <1>9 DEF Placed
<1>11. \A k \in 1..n[o] : t[o][k] = s[o][k] /\ k \in 1..m[o]
  BY <1>1, <1>2, <1>5
<1>12. \A k \in 1..j : t[o][n[o] + k] = s[p][k] /\ n[o] + k \in 1..m[o]
  <2> SUFFICES ASSUME NEW k \in 1..j PROVE t[o][n[o] + k] = s[p][k] /\ n[o] + k \in 1..m[o]
    OBVIOUS
  <2>1. n[o] + k \in 1..(n[o] + j) /\ ~(n[o] + k <= n[o]) /\ (n[o] + k) - n[o] = k
    BY <1>1
  <2> QED BY <1>2, <1>5, <2>1
<1>13. \A k \in 1..m[p] : t[p][k] = s[p][k + j] /\ k + j \in 1..n[p]
  BY <1>1, <1>2, <1>6
<1>14. \A k \in 1..m[o] : k \in 1..n[o] \/ (k - n[o] \in 1..j /\ n[o] + (k - n[o]) = k)
  BY <1>1, <1>2
<1>15. \A k \in 1..n[p] : k \in 1..j \/ (k - j \in 1..m[p] /\ (k - j) + j = k)
  BY <1>1, <1>2
<1> QED BY <1>2, <1>3, <1>4, <1>10, <1>11, <1>12, <1>13, <1>14, <1>15 DEF Moved

\* Moved clusters stay in one chain each.
LEMMA MovedPlaced ==
  ASSUME NEW own, NEW n, NEW s, NEW o \in own, NEW p \in own, o # p,
         n \in [own -> Nat], NEW j \in 0..n[p], Placed(own, n, s),
         NEW m, NEW t, Moved(own, n, s, o, p, j, m, t)
  PROVE  Placed(own, m, t)
<1> DEFINE \* where the cluster at a place was before
           From(q, k) == IF q = o THEN IF k \in 1..n[o] THEN <<o, k>> ELSE <<p, k - n[o]>>
                         ELSE IF q = p THEN <<p, k + j>> ELSE <<q, k>>
<1>1. /\ m \in [own -> Nat] /\ m[o] = n[o] + j /\ m[p] = n[p] - j
      /\ \A q \in own \ {o, p} : m[q] = n[q] /\ t[q] = s[q]
      /\ DOMAIN t = own
      /\ \A q \in own : t[q] \in [1..m[q] -> Cluster]
      /\ \A k \in 1..n[o] : t[o][k] = s[o][k] /\ k \in 1..m[o]
      /\ \A k \in 1..j : t[o][n[o] + k] = s[p][k] /\ n[o] + k \in 1..m[o]
      /\ \A k \in 1..m[p] : t[p][k] = s[p][k + j] /\ k + j \in 1..n[p]
      /\ \A k \in 1..m[o] : k \in 1..n[o] \/ (k - n[o] \in 1..j /\ n[o] + (k - n[o]) = k)
      /\ \A k \in 1..n[p] : k \in 1..j \/ (k - j \in 1..m[p] /\ (k - j) + j = k)
  BY DEF Moved
<1>2. n[o] \in Nat /\ n[p] \in Nat /\ j \in Nat
  OBVIOUS
<1>3. ASSUME NEW q \in own, NEW k \in 1..m[q]
      PROVE  \E r \in own : \E l \in 1..n[r] :
               From(q, k) = <<r, l>> /\ t[q][k] = s[r][l]
  <2>1. CASE q = o
    <3>1. CASE k \in 1..n[o]
      BY <1>1, <2>1, <3>1
    <3>2. CASE k \notin 1..n[o]
      <4>1. k - n[o] \in 1..j /\ n[o] + (k - n[o]) = k /\ k - n[o] \in 1..n[p]
        BY <1>1, <1>2, <2>1, <3>2
      <4>2. t[o][k] = s[p][k - n[o]]
        BY <1>1, <4>1
      <4> QED BY <2>1, <3>2, <4>1, <4>2
    <3> QED BY <3>1, <3>2
  <2>2. CASE q = p
    BY <1>1, <2>2
  <2>3. CASE q \in own \ {o, p}
    BY <1>1, <2>3
  <2> QED BY <2>1, <2>2, <2>3
<1>4. ASSUME NEW q \in own, NEW k \in 1..m[q], NEW r \in own, NEW l \in 1..m[r],
             From(q, k) = From(r, l)
      PROVE  q = r /\ k = l
  <2>1. m[q] \in Nat /\ m[r] \in Nat
    BY <1>1
  <2>2. q = o /\ k \notin 1..n[o] => k - n[o] \in 1..j
    BY <1>1
  <2>3. r = o /\ l \notin 1..n[o] => l - n[o] \in 1..j
    BY <1>1
  <2>4. CASE q = o /\ k \in 1..n[o]
    BY <1>2, <1>4, <2>1, <2>3, <2>4
  <2>5. CASE q = o /\ k \notin 1..n[o]
    <3>1. r # o => r = p
      BY <1>4, <2>5
    <3>2. r = o => l \notin 1..n[o]
      BY <1>4, <2>5
    <3>3. r = o => k - n[o] = l - n[o]
      BY <1>4, <2>5, <3>2
    <3>4. r = p => k - n[o] = l + j
      BY <1>4, <2>5
    <3> QED BY <1>2, <2>1, <2>2, <2>5, <3>1, <3>3, <3>4
  <2>6. CASE q = p
    <3>1. r = o => l \notin 1..n[o] /\ k + j = l - n[o]
      BY <1>4, <2>6
    <3>2. r # o => r = p /\ k + j = l + j
      BY <1>4, <2>6
    <3> QED BY <1>2, <2>1, <2>3, <2>6, <3>1, <3>2
  <2>7. CASE q \in own \ {o, p}
    BY <1>4, <2>7
  <2> QED BY <2>4, <2>5, <2>6, <2>7
<1>5. ASSUME NEW q \in own, NEW k \in 1..m[q], NEW r \in own, NEW l \in 1..m[r],
             t[q][k] = t[r][l]
      PROVE  q = r /\ k = l
  <2> HIDE DEF From
  <2>1. PICK q2 \in own : \E k2 \in 1..n[q2] : From(q, k) = <<q2, k2>> /\ t[q][k] = s[q2][k2]
    BY <1>3
  <2>2. PICK k2 \in 1..n[q2] : From(q, k) = <<q2, k2>> /\ t[q][k] = s[q2][k2]
    BY <2>1
  <2>3. PICK r2 \in own : \E l2 \in 1..n[r2] : From(r, l) = <<r2, l2>> /\ t[r][l] = s[r2][l2]
    BY <1>3
  <2>4. PICK l2 \in 1..n[r2] : From(r, l) = <<r2, l2>> /\ t[r][l] = s[r2][l2]
    BY <2>3
  <2>5. s[q2][k2] = s[r2][l2]
    BY <1>5, <2>2, <2>4
  <2>6. q2 = r2 /\ k2 = l2
    BY <2>5 DEF Placed
  <2>7. From(q, k) = From(r, l)
    BY <2>2, <2>4, <2>6
  <2> QED BY <1>4, <2>7
<1>6. ASSUME NEW c \in Cluster PROVE \E q \in own : \E k \in 1..m[q] : t[q][k] = c
  <2>1. PICK q \in own : \E k \in 1..n[q] : s[q][k] = c
    BY DEF Placed
  <2>2. PICK k \in 1..n[q] : s[q][k] = c
    BY <2>1
  <2>3. CASE q = o
    BY <1>1, <2>2, <2>3
  <2>4. CASE q = p
    <3>1. CASE k \in 1..j
      BY <1>1, <2>2, <2>4, <3>1
    <3>2. CASE k \notin 1..j
      <4>1. k - j \in 1..m[p] /\ (k - j) + j = k
        BY <1>1, <2>2, <2>4, <3>2
      <4>2. t[p][k - j] = c
        BY <1>1, <2>2, <2>4, <4>1
      <4> QED BY <4>1, <4>2
    <3> QED BY <3>1, <3>2
  <2>5. CASE q \in own \ {o, p}
    BY <1>1, <2>2, <2>5
  <2> QED BY <2>3, <2>4, <2>5
<1> QED BY <1>1, <1>5, <1>6 DEF Placed

\* The links that a move needs: the last link of the chain that grows, and that of the
\* last cluster that is moved.
Relinked(n, s, o, p, j, next, pre, next1, pre1) ==
  /\ \A c \in Cluster :
       /\ next1[c] = IF n[o] > 0 /\ c = s[o][n[o]] THEN s[p][1]
                     ELSE IF c = s[p][j] THEN 0 ELSE next[c]
       /\ c # s[p][1] /\ (j < n[p] => c # s[p][j + 1]) => pre1[c] = pre[c]
  /\ n[o] > 0 => pre1[s[p][1]] = s[o][n[o]]

LEMMA MovedChained ==
  ASSUME NEW own, NEW n, NEW s, NEW o \in own, NEW p \in own, o # p,
         n \in [own -> Nat], NEW j \in 1..n[p], Placed(own, n, s),
         NEW next, NEW pre, NEW next1, NEW pre1,
         Chained(own, n, s, next, pre), Relinked(n, s, o, p, j, next, pre, next1, pre1),
         NEW m, NEW t, Moved(own, n, s, o, p, j, m, t)
  PROVE  Chained(own, m, t, next1, pre1)
<1>1. /\ m \in [own -> Nat] /\ m[o] = n[o] + j /\ m[p] = n[p] - j
      /\ \A q \in own \ {o, p} : m[q] = n[q] /\ t[q] = s[q]
      /\ \A k \in 1..n[o] : t[o][k] = s[o][k] /\ k \in 1..m[o]
      /\ \A k \in 1..j : t[o][n[o] + k] = s[p][k] /\ n[o] + k \in 1..m[o]
      /\ \A k \in 1..m[p] : t[p][k] = s[p][k + j] /\ k + j \in 1..n[p]
  BY DEF Moved
<1>2. n[o] \in Nat /\ n[p] \in Nat /\ j \in Nat /\ 1 \in 1..n[p]
  OBVIOUS
<1>3. \A q \in own : \A k \in 1..n[q] : s[q][k] \in Cluster
  <2>1. \A q \in own : s[q] \in [1..n[q] -> Cluster]
    BY DEF Placed
  <2> QED BY <2>1
<1>4. \A q, r \in own : \A k \in 1..n[q], l \in 1..n[r] : s[q][k] = s[r][l] => q = r /\ k = l
  BY DEF Placed
\* Inside the chains the links are the old ones, but where the free chain is cut.
<1>5. ASSUME NEW q \in own, NEW k \in 1..(n[q] - 1), ~(q = p /\ k = j)
      PROVE  next1[s[q][k]] = s[q][k + 1] /\ pre1[s[q][k + 1]] = s[q][k]
  <2>1. k \in 1..n[q] /\ k + 1 \in 1..n[q] /\ n[q] \in Nat
    OBVIOUS
  <2>2. next[s[q][k]] = s[q][k + 1] /\ pre[s[q][k + 1]] = s[q][k]
    BY DEF Chained
  <2>3. n[o] > 0 => s[q][k] # s[o][n[o]]
    BY <1>2, <1>4, <2>1
  <2>4. s[q][k] # s[p][j]
    BY <1>2, <1>4, <1>5, <2>1
  <2>5. s[q][k + 1] # s[p][1]
    BY <1>2, <1>4, <2>1
  <2>6. j < n[p] => s[q][k + 1] # s[p][j + 1]
    BY <1>2, <1>4, <1>5, <2>1
  <2> QED BY <1>3, <2>1, <2>2, <2>3, <2>4, <2>5, <2>6 DEF Relinked
<1>6. next1[s[p][j]] = 0
  <2>1. n[o] > 0 => s[p][j] # s[o][n[o]]
    BY <1>2, <1>4
  <2> QED BY <1>3, <2>1 DEF Relinked
<1>7. n[o] > 0 => next1[s[o][n[o]]] = s[p][1] /\ pre1[s[p][1]] = s[o][n[o]]
  BY <1>2, <1>3 DEF Relinked
<1>8. ASSUME NEW q \in own, q # o, n[q] > 0, q = p => j < n[p]
      PROVE  next1[s[q][n[q]]] = 0
  <2>1. n[q] \in 1..n[q] /\ next[s[q][n[q]]] = 0
    BY <1>8 DEF Chained
  <2>2. n[o] > 0 => s[q][n[q]] # s[o][n[o]]
    BY <1>2, <1>4, <1>8, <2>1
  <2> QED BY <1>3, <2>1, <2>2 DEF Relinked
<1>9. ASSUME NEW k \in 1..(m[o] - 1)
      PROVE  next1[t[o][k]] = t[o][k + 1] /\ pre1[t[o][k + 1]] = t[o][k]
  <2>1. CASE k < n[o]
    <3>1. k \in 1..(n[o] - 1) /\ k \in 1..n[o] /\ k + 1 \in 1..n[o]
      BY <1>2, <2>1
    <3> QED BY <1>1, <1>5, <3>1
  <2>2. CASE k = n[o]
    <3>1. k \in 1..n[o] /\ n[o] > 0 /\ 1 \in 1..j
      BY <1>2, <2>2
    <3> QED BY <1>1, <1>7, <2>2, <3>1
  <2>3. CASE k > n[o]
    <3> DEFINE l == k - n[o]
    <3>1. /\ l \in 1..(n[p] - 1) /\ l # j /\ l \in 1..j /\ l + 1 \in 1..j
          /\ n[o] + l = k /\ n[o] + (l + 1) = k + 1
      BY <1>1, <1>2, <2>3
    <3> HIDE DEF l
    <3>2. t[o][k] = s[p][l] /\ t[o][k + 1] = s[p][l + 1]
      BY <1>1, <3>1
    <3> QED BY <1>5, <3>1, <3>2
  <2> QED BY <1>2, <2>1, <2>2, <2>3
<1>10. next1[t[o][m[o]]] = 0
  <2>1. j \in 1..j /\ n[o] + j = m[o]
    BY <1>1
  <2>2. t[o][n[o] + j] = s[p][j]
    BY <1>1, <2>1
  <2> QED BY <1>6, <2>1, <2>2
<1>11. ASSUME NEW k \in 1..(m[p] - 1)
       PROVE  next1[t[p][k]] = t[p][k + 1] /\ pre1[t[p][k + 1]] = t[p][k]
  <2>1. /\ k \in 1..m[p] /\ k + 1 \in 1..m[p] /\ k + j \in 1..(n[p] - 1) /\ k + j # j
        /\ (k + 1) + j = (k + j) + 1
    BY <1>1, <1>2
  <2>2. t[p][k] = s[p][k + j] /\ t[p][k + 1] = s[p][(k + j) + 1]
    BY <1>1, <2>1
  <2> QED BY <1>5, <2>1, <2>2
<1>12. m[p] > 0 => next1[t[p][m[p]]] = 0
  <2> SUFFICES ASSUME m[p] > 0 PROVE next1[t[p][m[p]]] = 0
    OBVIOUS
  <2>1. m[p] \in 1..m[p] /\ m[p] + j = n[p] /\ j < n[p] /\ n[p] > 0
    BY <1>1, <1>2
  <2>2. t[p][m[p]] = s[p][n[p]]
    BY <1>1, <2>1
  <2> QED BY <1>8, <2>1, <2>2
<1>13. ASSUME NEW q \in own \ {o, p}
       PROVE  /\ \A k \in 1..(m[q] - 1) : next1[t[q][k]] = t[q][k + 1] /\ pre1[t[q][k + 1]] = t[q][k]
              /\ m[q] > 0 => next1[t[q][m[q]]] = 0
  BY <1>1, <1>5, <1>8
<1> QED BY <1>9, <1>10, <1>11, <1>12, <1>13 DEF Chained

\* A chain is not longer than there are clusters.
LEMMA PlacedBound ==
  ASSUME NEW own, NEW n, NEW s, Placed(own, n, s), NEW o \in own
  PROVE  n[o] <= NumCluster
<1> SUFFICES ASSUME n[o] > NumCluster PROVE FALSE
  BY SfsAssumption DEF Placed
<1>1. n[o] \in Nat /\ s[o] \in [1..n[o] -> Cluster]
  BY DEF Placed
<1>2. NumCluster \in Nat
  BY SfsAssumption
<1>3. IsFiniteSet(Cluster) /\ Cardinality(Cluster) = NumCluster
  BY <1>2, FS_Interval DEF Cluster
<1>4. IsFiniteSet(1..n[o]) /\ Cardinality(1..n[o]) = n[o]
  BY <1>1, FS_Interval
<1>5. Cardinality(Cluster) < Cardinality(1..n[o])
  BY <1>1, <1>2, <1>3, <1>4
<1>6. \E k, l \in 1..n[o] : k # l /\ s[o][k] = s[o][l]
  <2> DEFINE P == 1..n[o]
             f == s[o]
  <2>1. f \in [P -> Cluster] /\ IsFiniteSet(P) /\ Cardinality(Cluster) < Cardinality(P)
    BY <1>1, <1>4, <1>5
  <2> HIDE DEF P, f
  <2>2. \E x, y \in P : x # y /\ f[x] = f[y]
    BY <1>3, <2>1, FS_PigeonHole
  <2> QED BY <2>2 DEF P, f
<1> QED BY <1>6 DEF Placed

\* The clusters in chains are the chains that Chain finds.
LEMMA ChainedIs ==
  ASSUME NEW own, NEW n, NEW s, NEW next, NEW pre, NEW o \in own, NEW head,
         Placed(own, n, s), Chained(own, n, s, next, pre), n[o] > 0 => s[o][1] = head
  PROVE  Chain(next, head, n[o]) = s[o]
<1>1. n[o] \in Nat /\ s[o] \in [1..n[o] -> Cluster]
  BY DEF Placed
<1>2. \A k \in 1..(n[o] - 1) : next[s[o][k]] = s[o][k + 1]
  BY DEF Chained
<1> QED BY <1>1, <1>2, ChainIs

\* A new owner has a chain of no clusters.
LEMMA AddedOwner ==
  ASSUME NEW own, NEW n, NEW s, NEW next, NEW pre, NEW e, e \notin own,
         Placed(own, n, s), Chained(own, n, s, next, pre),
         NEW m, NEW t, DOMAIN m = own \cup {e}, m[e] = 0, t[e] = [k \in 1..0 |-> 0],
         \A q \in own : m[q] = n[q] /\ t[q] = s[q]
  PROVE  /\ Placed(own \cup {e}, m, t)
         /\ Chained(own \cup {e}, m, t, next, pre)
<1>1. \A q \in own \cup {e} : m[q] \in Nat /\ t[q] \in [1..m[q] -> Cluster]
  <2>1. \A q \in own : m[q] \in Nat /\ t[q] \in [1..m[q] -> Cluster]
    BY DEF Placed
  <2>2. m[e] \in Nat /\ t[e] \in [1..m[e] -> Cluster]
    OBVIOUS
  <2> QED BY <2>1, <2>2
<1>2. ASSUME NEW q \in own \cup {e}, NEW r \in own \cup {e},
             NEW k \in 1..m[q], NEW l \in 1..m[r], t[q][k] = t[r][l]
      PROVE  q = r /\ k = l
  <2>1. q \in own /\ r \in own
    OBVIOUS
  <2>2. k \in 1..n[q] /\ l \in 1..n[r] /\ s[q][k] = s[r][l]
    BY <1>2, <2>1
  <2> QED BY <2>1, <2>2 DEF Placed
<1>3. ASSUME NEW c \in Cluster PROVE \E q \in own \cup {e} : \E k \in 1..m[q] : t[q][k] = c
  <2>1. PICK q \in own : \E k \in 1..n[q] : s[q][k] = c
    BY DEF Placed
  <2> QED BY <2>1
<1>4. Chained(own \cup {e}, m, t, next, pre)
  <2>1. ASSUME NEW q \in own
        PROVE  /\ \A k \in 1..(m[q] - 1) : next[t[q][k]] = t[q][k + 1] /\ pre[t[q][k + 1]] = t[q][k]
               /\ m[q] > 0 => next[t[q][m[q]]] = 0
    BY DEF Chained
  <2>2. /\ \A k \in 1..(m[e] - 1) : next[t[e][k]] = t[e][k + 1] /\ pre[t[e][k + 1]] = t[e][k]
        /\ m[e] > 0 => next[t[e][m[e]]] = 0
    OBVIOUS
  <2> QED BY <2>1, <2>2 DEF Chained
<1> QED BY <1>1, <1>2, <1>3, <1>4 DEF Placed

\* An owner whose chain has no clusters takes over that of one that leaves.
LEMMA TakenOver ==
  ASSUME NEW own, NEW n, NEW s, NEW next, NEW pre, NEW f \in own, NEW e \in own, e # f,
         Placed(own, n, s), Chained(own, n, s, next, pre), n[f] = 0,
         NEW m, NEW t, m[f] = n[e], t[f] = s[e],
         \A q \in own \ {e, f} : m[q] = n[q] /\ t[q] = s[q]
  PROVE  /\ Placed(own \ {e}, m, t)
         /\ Chained(own \ {e}, m, t, next, pre)
<1> DEFINE Was(q) == IF q = f THEN e ELSE q
<1>1. ASSUME NEW q \in own \ {e} PROVE Was(q) \in own /\ m[q] = n[Was(q)] /\ t[q] = s[Was(q)]
  OBVIOUS
<1>2. \A q, r \in own \ {e} : Was(q) = Was(r) => q = r
  OBVIOUS
<1>3. ASSUME NEW q \in own, q # f PROVE \E r \in own \ {e} : Was(r) = q
  <2>1. q = e => Was(f) = q
    OBVIOUS
  <2>2. q # e => Was(q) = q
    BY <1>3
  <2> QED BY <1>3, <2>1, <2>2
<1> HIDE DEF Was
<1>4. \A q \in own \ {e} : m[q] \in Nat /\ t[q] \in [1..m[q] -> Cluster]
  BY <1>1 DEF Placed
<1>5. ASSUME NEW q \in own \ {e}, NEW r \in own \ {e},
             NEW k \in 1..m[q], NEW l \in 1..m[r], t[q][k] = t[r][l]
      PROVE  q = r /\ k = l
  <2>1. Was(q) \in own /\ Was(r) \in own /\ k \in 1..n[Was(q)] /\ l \in 1..n[Was(r)]
    BY <1>1
  <2>2. s[Was(q)][k] = s[Was(r)][l]
    BY <1>1, <1>5
  <2>3. Was(q) = Was(r) /\ k = l
    BY <2>1, <2>2 DEF Placed
  <2> QED BY <1>2, <2>3
<1>6. ASSUME NEW c \in Cluster PROVE \E q \in own \ {e} : \E k \in 1..m[q] : t[q][k] = c
  <2>1. PICK q \in own : \E k \in 1..n[q] : s[q][k] = c
    BY DEF Placed
  <2>2. q # f
    BY <2>1
  <2>3. PICK r \in own \ {e} : Was(r) = q
    BY <1>3, <2>2
  <2> QED BY <1>1, <2>1, <2>3
<1>7. Chained(own \ {e}, m, t, next, pre)
  BY <1>1 DEF Chained
<1> QED BY <1>4, <1>5, <1>6, <1>7 DEF Placed

----------------------------------------------------------------------------
\* The inductive invariant: the chains as the lemmas above see them, what is erased,
\* the handles' copies of the chains, and names that tell files apart.

Totals == [o \in Owners |-> Total(o)]

Chains == [o \in Owners |-> ChainOf(o)]

KeptInv ==
  mib.fit =>
    /\ Placed(Owners, Totals, Chains)
    /\ Chained(Owners, Totals, Chains, iNext, iPre)
    /\ \A i \in Used : fib[i].iTail = ChainOf(i)[Total(i)]
    /\ mib.free_cluster_count = 0 => mib.iFree_cluster = 0
    /\ mib.free_FIB_count + Cardinality(Used) = NumFib

RawInv ==
  ~mib.fit => Used = {} /\ Opened = {} /\ mib.free_FIB_count = 0 /\ mib.free_cluster_count = 0

HandlesInv == \A i \in Opened : i \in Used /\ file[i].pIndex = ChainOf(i)

NamesInv ==
  /\ \A i \in Used : fib[i].fname \in Names
  /\ \A i, k \in Used : fib[i].fname = fib[k].fname => i = k

SfsInv == TypeOK /\ KeptInv /\ RawInv /\ Erased /\ HandlesInv /\ NamesInv

LEMMA InvFacts ==
  ASSUME SfsInv
  PROVE  /\ Used \in SUBSET Fibs /\ FreeList \notin Fibs
         /\ Totals \in [Owners -> Nat] /\ DOMAIN Chains = Owners
         /\ Totals[FreeList] = Total(FreeList) /\ Total(FreeList) = mib.free_cluster_count
         /\ \A i \in Used : /\ Totals[i] = Total(i) /\ Total(i) = fib[i].total_cluster
                            /\ Totals[i] \in Nat \ {0}
         /\ \A o \in Owners : Chains[o] = ChainOf(o)
<1>1. Used \in SUBSET Fibs /\ FreeList \notin Fibs
  BY DEF Used, Fibs, FreeList
<1>2. \A i \in Used : Total(i) = fib[i].total_cluster /\ Total(i) \in Nat /\ Total(i) # 0
  <2> SUFFICES ASSUME NEW i \in Used
               PROVE  Total(i) = fib[i].total_cluster /\ Total(i) \in Nat /\ Total(i) # 0
    OBVIOUS
  <2>1. i \in Fibs /\ i # FreeList /\ fib[i].total_cluster # 0
    BY <1>1 DEF Used
  <2>2. Total(i) = fib[i].total_cluster
    BY <2>1 DEF Total
  <2>3. fib[i].total_cluster \in Links
    BY <2>1 DEF SfsInv, TypeOK
  <2> QED BY <2>1, <2>2, <2>3, SfsAssumption DEF Links
<1>3. Total(FreeList) = mib.free_cluster_count /\ Total(FreeList) \in Nat
  BY SfsAssumption DEF SfsInv, TypeOK, Total, Links
<1>4. \A o \in Owners : Total(o) \in Nat
  BY <1>2, <1>3 DEF Owners
<1>5. Totals \in [Owners -> Nat]
  BY <1>4 DEF Totals
<1>6. \A i \in Used : Totals[i] = Total(i)
  BY DEF Totals, Owners
<1>7. Totals[FreeList] = Total(FreeList)
  BY DEF Totals, Owners
<1>8. DOMAIN Chains = Owners /\ \A o \in Owners : Chains[o] = ChainOf(o)
  BY DEF Chains
<1> QED BY <1>1, <1>2, <1>3, <1>5, <1>6, <1>7, <1>8

LEMMA FitFacts ==
  ASSUME SfsInv, mib.fit
  PROVE  /\ \A o \in Owners :
              /\ ChainOf(o) \in [1..Totals[o] -> Cluster]
              /\ Totals[o] > 0 => First(o) = Chains[o][1] /\ First(o) \in Cluster
              /\ Totals[o] <= NumCluster
         /\ \A i \in Used : fib[i].iHead = Chains[i][1] /\ fib[i].iTail = Chains[i][Totals[i]]
         /\ mib.free_cluster_count > 0 => mib.iFree_cluster = Chains[FreeList][1]
         /\ mib.free_cluster_count = 0 <=> mib.iFree_cluster = 0
         /\ Placed(Owners, Totals, Chains) /\ Chained(Owners, Totals, Chains, iNext, iPre)
<1>1. Placed(Owners, Totals, Chains) /\ Chained(Owners, Totals, Chains, iNext, iPre)
  BY DEF SfsInv, KeptInv
<1>2. ASSUME NEW o \in Owners
      PROVE  /\ ChainOf(o) \in [1..Totals[o] -> Cluster]
             /\ Totals[o] > 0 => First(o) = Chains[o][1] /\ First(o) \in Cluster
             /\ Totals[o] <= NumCluster
  <2>1. Totals[o] = Total(o) /\ Total(o) \in Nat /\ Chains[o] = ChainOf(o)
    BY InvFacts DEF Owners
  <2>2. Chains[o] \in [1..Totals[o] -> Cluster]
    BY <1>1 DEF Placed
  <2>3. Total(o) > 0 => ChainOf(o)[1] = First(o)
    BY <2>1, ChainDef DEF ChainOf
  <2>4. Totals[o] <= NumCluster
    BY <1>1, PlacedBound
  <2>5. Totals[o] > 0 => Chains[o][1] \in Cluster
    BY <2>1, <2>2
  <2> QED BY <2>1, <2>2, <2>3, <2>4, <2>5
<1>3. ASSUME NEW i \in Used
      PROVE  fib[i].iHead = Chains[i][1] /\ fib[i].iTail = Chains[i][Totals[i]]
  <2>1. /\ i \in Owners /\ Totals[i] > 0 /\ Totals[i] = Total(i) /\ Chains[i] = ChainOf(i)
        /\ i # FreeList
    BY InvFacts DEF Owners
  <2>2. First(i) = fib[i].iHead
    BY <2>1 DEF First
  <2>3. fib[i].iTail = ChainOf(i)[Total(i)]
    BY DEF SfsInv, KeptInv
  <2> QED BY <1>2, <2>1, <2>2, <2>3
<1>4. /\ mib.free_cluster_count > 0 => mib.iFree_cluster = Chains[FreeList][1]
      /\ mib.free_cluster_count = 0 <=> mib.iFree_cluster = 0
  <2>1. FreeList \in Owners /\ Totals[FreeList] = mib.free_cluster_count /\ Totals[FreeList] \in Nat
    BY InvFacts DEF Owners
  <2>2. First(FreeList) = mib.iFree_cluster
    BY DEF First
  <2>3. mib.free_cluster_count = 0 => mib.iFree_cluster = 0
    BY DEF SfsInv, KeptInv
  <2>4. 0 \notin Cluster
    BY DEF Cluster
  <2> QED BY <1>2, <2>1, <2>2, <2>3, <2>4
<1> QED BY <1>1, <1>2, <1>3, <1>4

\* A call that leaves the disk alone.
LEMMA DiskKept ==
  ASSUME SfsInv, UNCHANGED disk
  PROVE  /\ Used' = Used /\ Owners' = Owners /\ Totals' = Totals /\ Chains' = Chains
         /\ \A o : Total(o)' = Total(o) /\ First(o)' = First(o) /\ ChainOf(o)' = ChainOf(o)
                   /\ Size(o)' = Size(o)
         /\ KeptInv' /\ Erased' /\ NamesInv'
<1>1. mib' = mib /\ fib' = fib /\ iPre' = iPre /\ iNext' = iNext /\ data' = data
  BY DEF disk
<1>2. Used' = Used
  BY <1>1 DEF Used
<1>3. Owners' = Owners
  BY <1>2 DEF Owners
<1>4. \A o : Total(o)' = Total(o) /\ First(o)' = First(o)
  BY <1>1 DEF Total, First
<1>5. \A o : ChainOf(o)' = ChainOf(o)
  BY <1>1, <1>4 DEF ChainOf
<1>6. \A o : Size(o)' = Size(o)
  BY <1>1 DEF Size
<1>7. Totals' = Totals
  BY <1>3, <1>4 DEF Totals
<1>8. Chains' = Chains
  BY <1>3, <1>5 DEF Chains
<1>9. KeptInv'
  BY <1>1, <1>2, <1>3, <1>4, <1>5, <1>7, <1>8 DEF SfsInv, KeptInv
<1>10. Erased'
  BY <1>1, <1>2, <1>4, <1>5 DEF SfsInv, Erased
<1>11. NamesInv'
  BY <1>1, <1>2 DEF SfsInv, NamesInv
<1> QED BY <1>2, <1>3, <1>4, <1>5, <1>6, <1>7, <1>8, <1>9, <1>10, <1>11

LEMMA EmptyIsBytes == EmptyCluster \in [0..(ClusterData - 1) -> Byte]
<1>1. Zero \in Byte
  BY Zenon DEF Byte
<1> QED BY <1>1 DEF EmptyCluster

LEMMA InitHolds == Init => SfsInv
<1> SUFFICES ASSUME Init PROVE SfsInv
  OBVIOUS
<1> USE SfsAssumption
<1>1. Used = {} /\ Opened = {} /\ ~mib.fit
  BY DEF Init, Used, Opened, RawDisk, NoFib
<1>2. mib.free_FIB_count = 0 /\ mib.free_cluster_count = 0 /\ mib.iFree_cluster = 0
  BY DEF Init, RawDisk
<1>3. TypeOK
  <2>1. mib \in [fit : BOOLEAN, free_FIB_count : 0..NumFib,
                 free_cluster_count : Links, iFree_cluster : Links]
    BY DEF Init, RawDisk, Links
  <2>2. fib \in [Fibs -> [fname : Names \cup {NoName}, iHead : Links, iTail : Links,
                          total_cluster : Links, tail_cluster_unuse_byte : 0..ClusterData]]
    BY DEF Init, RawDisk, NoFib, Links
  <2>3. /\ iNext \in [Links -> Links]
        /\ iPre \in [Links -> Links \cup {Header}] /\ \A c \in Cluster : iPre[c] \in Links
    BY DEF Init, RawDisk, Links, Cluster
  <2>4. data \in [Cluster -> [0..(ClusterData - 1) -> Byte]]
    BY EmptyIsBytes DEF Init, RawDisk
  <2>5. file \in [Fibs -> Handle \cup {None}]
    BY DEF Init
  <2> QED BY <1>1, <2>1, <2>2, <2>3, <2>4, <2>5 DEF TypeOK
<1>4. Erased
  BY <1>1, <1>2 DEF Erased, Total
<1> QED BY <1>1, <1>2, <1>3, <1>4 DEF SfsInv, KeptInv, RawInv, HandlesInv, NamesInv

\* A call that changes handles alone keeps what the handles are.
LEMMA HandlesKept ==
  ASSUME SfsInv, UNCHANGED disk, file' \in [Fibs -> Handle \cup {None}],
         \A i \in Opened' :
           /\ i \in Used /\ file'[i].pIndex = ChainOf(i)
           /\ file'[i].length = Size(i) /\ file'[i].logic_position \in 0..file'[i].length,
         mib.fit \/ Opened' = {}
  PROVE  SfsInv'
<1>1. /\ Used' = Used /\ \A o : ChainOf(o)' = ChainOf(o) /\ Size(o)' = Size(o)
      /\ KeptInv' /\ Erased' /\ NamesInv'
  BY DiskKept
<1>2. mib' = mib /\ fib' = fib /\ iPre' = iPre /\ iNext' = iNext /\ data' = data
  BY DEF disk
<1>3. TypeOK'
  BY <1>1, <1>2 DEF SfsInv, TypeOK
<1>4. RawInv'
  BY <1>1, <1>2 DEF SfsInv, RawInv
<1>5. HandlesInv'
  BY <1>1 DEF HandlesInv
<1> QED BY <1>1, <1>3, <1>4, <1>5 DEF SfsInv

LEMMA NothingKept ==
  ASSUME SfsInv, UNCHANGED <<disk, file>>
  PROVE  SfsInv'
<1>1. Opened' = Opened /\ file' = file
  BY DEF Opened
<1>2. file \in [Fibs -> Handle \cup {None}]
  BY DEF SfsInv, TypeOK
<1>3. \A i \in Opened :
        /\ i \in Used /\ file[i].pIndex = ChainOf(i)
        /\ file[i].length = Size(i) /\ file[i].logic_position \in 0..file[i].length
  BY DEF SfsInv, TypeOK, HandlesInv
<1>4. mib.fit \/ Opened = {}
  BY DEF SfsInv, RawInv
<1> QED BY <1>1, <1>2, <1>3, <1>4, HandlesKept

\* The handle of a file block is changed, and stays a handle of its file.
LEMMA HandleKept ==
  ASSUME SfsInv, mib.fit, UNCHANGED disk, NEW i \in Used, NEW h \in Handle,
         file' = [file EXCEPT ![i] = h],
         h.length = Size(i), h.logic_position \in 0..h.length, h.pIndex = ChainOf(i)
  PROVE  SfsInv'
<1>1. i \in Fibs
  BY DEF Used
<1>2. file \in [Fibs -> Handle \cup {None}]
  BY DEF SfsInv, TypeOK
<1>3. file' \in [Fibs -> Handle \cup {None}]
  BY <1>1, <1>2
<1>4. \A k \in Opened' : k = i \/ (k \in Opened /\ file'[k] = file[k])
  BY <1>2 DEF Opened
<1>5. file'[i] = h
  BY <1>1, <1>2
<1>6. \A k \in Opened :
        /\ k \in Used /\ file[k].pIndex = ChainOf(k)
        /\ file[k].length = Size(k) /\ file[k].logic_position \in 0..file[k].length
  BY DEF SfsInv, TypeOK, HandlesInv
<1>7. \A k \in Opened' :
        /\ k \in Used /\ file'[k].pIndex = ChainOf(k)
        /\ file'[k].length = Size(k) /\ file'[k].logic_position \in 0..file'[k].length
  BY <1>4, <1>5, <1>6
<1> QED BY <1>3, <1>7, HandlesKept

\* The handle of an open file.
LEMMA HandleFacts ==
  ASSUME SfsInv, NEW i \in Opened
  PROVE  /\ mib.fit /\ i \in Used /\ i \in Fibs /\ file[i] \in Handle
         /\ file[i].length \in Nat /\ file[i].logic_position \in Nat
         /\ file[i].pIndex = ChainOf(i) /\ file[i].length = Size(i)
         /\ file[i].logic_position <= file[i].length
<1>1. i \in Fibs /\ file[i] # None
  BY DEF Opened
<1>2. file[i] \in Handle
  BY <1>1 DEF SfsInv, TypeOK
<1>3. mib.fit /\ i \in Used /\ file[i].pIndex = ChainOf(i) /\ file[i].length = Size(i)
  BY DEF SfsInv, RawInv, HandlesInv, TypeOK
<1>4. file[i].logic_position \in 0..file[i].length
  BY DEF SfsInv, TypeOK
<1>5. file[i].length \in Nat /\ file[i].logic_position \in Nat
  BY <1>2 DEF Handle
<1> QED BY <1>1, <1>2, <1>3, <1>4, <1>5

LEMMA SeekStep ==
  ASSUME SfsInv, NEW i \in Fibs, NEW p \in Positions, Seek(i, p)
  PROVE  SfsInv'
<1>1. i \in Opened
  BY DEF Seek
<1>2. CASE Refuse("failed")
  BY <1>2, NothingKept DEF Refuse
<1>3. CASE p <= file[i].length /\ file' = [file EXCEPT ![i].logic_position = p] /\ UNCHANGED disk
  <2> DEFINE h == [file[i] EXCEPT !.logic_position = p]
  <2>1. p \in Nat
    BY SfsAssumption
  <2>2. /\ h \in Handle /\ h.length = file[i].length /\ h.logic_position = p
        /\ h.pIndex = file[i].pIndex
    BY <1>1, <2>1, HandleFacts DEF Handle
  <2>3. file' = [file EXCEPT ![i] = h]
    BY <1>3
  <2>4. h.length = Size(i) /\ h.pIndex = ChainOf(i) /\ h.logic_position \in 0..h.length
    BY <1>1, <1>3, <2>1, <2>2, HandleFacts
  <2> HIDE DEF h
  <2> QED BY <1>1, <1>3, <2>2, <2>3, <2>4, HandleFacts, HandleKept
<1> QED BY <1>2, <1>3 DEF Seek

LEMMA CloseStep ==
  ASSUME SfsInv, NEW i \in Fibs, Close(i)
  PROVE  SfsInv'
<1>1. i \in Opened /\ file' = [file EXCEPT ![i] = None] /\ UNCHANGED disk
  BY DEF Close
<1>2. file \in [Fibs -> Handle \cup {None}]
  BY DEF SfsInv, TypeOK
<1>3. file' \in [Fibs -> Handle \cup {None}]
  BY <1>1, <1>2
<1>4. \A k \in Opened' : k \in Opened /\ file'[k] = file[k]
  BY <1>1, <1>2 DEF Opened
<1>5. \A k \in Opened :
        /\ k \in Used /\ file[k].pIndex = ChainOf(k)
        /\ file[k].length = Size(k) /\ file[k].logic_position \in 0..file[k].length
  BY DEF SfsInv, TypeOK, HandlesInv
<1>6. mib.fit
  BY <1>1, HandleFacts
<1> QED BY <1>1, <1>3, <1>4, <1>5, <1>6, HandlesKept

\* The lesser and the larger of two numbers.
LEMMA MinOfTwo ==
  ASSUME NEW a \in Int, NEW b \in Int
  PROVE  Min({a, b}) = IF a <= b THEN a ELSE b
<1>1. \E x \in {a, b} : \A y \in {a, b} : x <= y
  OBVIOUS
<1>2. Min({a, b}) \in {a, b} /\ \A y \in {a, b} : Min({a, b}) <= y
  BY <1>1 DEF Min
<1> QED BY <1>2

LEMMA MaxOfTwo ==
  ASSUME NEW a \in Int, NEW b \in Int
  PROVE  Max({a, b}) = IF a >= b THEN a ELSE b
<1>1. \E x \in {a, b} : \A y \in {a, b} : x >= y
  OBVIOUS
<1>2. Max({a, b}) \in {a, b} /\ \A y \in {a, b} : Max({a, b}) >= y
  BY <1>1 DEF Max
<1> QED BY <1>2

LEMMA ReadStep ==
  ASSUME SfsInv, NEW i \in Fibs, NEW n \in Lengths, Read(i, n)
  PROVE  SfsInv'
<1> DEFINE len == Min({n, file[i].length - file[i].logic_position})
           h == [file[i] EXCEPT !.logic_position = @ + len]
<1>1. i \in Opened /\ file' = [file EXCEPT ![i] = h] /\ UNCHANGED disk
  BY DEF Read
<1>2. n \in Nat
  BY SfsAssumption
<1>3. len \in Nat /\ len <= file[i].length - file[i].logic_position
  <2>1. file[i].length \in Nat /\ file[i].logic_position \in Nat
        /\ file[i].logic_position <= file[i].length
    BY <1>1, HandleFacts
  <2> DEFINE rest == file[i].length - file[i].logic_position
  <2>2. rest \in Nat
    BY <2>1
  <2> HIDE DEF rest
  <2>3. Min({n, rest}) = IF n <= rest THEN n ELSE rest
    BY <1>2, <2>2, MinOfTwo
  <2> QED BY <1>2, <2>2, <2>3 DEF rest
<1> HIDE DEF len
<1>4. /\ h \in Handle /\ h.length = file[i].length /\ h.pIndex = file[i].pIndex
      /\ h.logic_position = file[i].logic_position + len
  BY <1>1, <1>3, HandleFacts DEF Handle
<1> HIDE DEF h
<1>5. h.length = Size(i) /\ h.pIndex = ChainOf(i) /\ h.logic_position \in 0..h.length
  BY <1>1, <1>3, <1>4, HandleFacts
<1> QED BY <1>1, <1>4, <1>5, HandleFacts, HandleKept

\* Products, quotients and remainders.
LEMMA ProductNat == \A a, b \in Nat : a * b \in Nat
OBVIOUS

LEMMA DivType == \A a \in Int : \A d \in Nat \ {0} : a \div d \in Int /\ a % d \in 0..(d - 1)
OBVIOUS

LEMMA DivMod == \A a \in Int : \A d \in Nat \ {0} : a = (a \div d) * d + (a % d)
OBVIOUS

LEMMA ProductOrder == \A a, b \in Int : \A d \in Nat \ {0} : a <= b => a * d <= b * d
OBVIOUS

LEMMA ProductLess == \A a, b \in Int : \A d \in Nat \ {0} : a * d < b * d => a < b
OBVIOUS

LEMMA ProductStep == \A a, b \in Int : (a - 1) * b = a * b - b /\ (a + 1) * b = a * b + b
OBVIOUS

LEMMA ProductSum == \A a, b, d \in Int : (a + b) * d = a * d + b * d
OBVIOUS

LEMMA ProductNeg == \A a, d \in Int : (-a) * d = -(a * d)
OBVIOUS

LEMMA ProductInt == \A a, d \in Int : a * d \in Int
OBVIOUS

\* Quotient and remainder are determined by their equation.
LEMMA DivIs ==
  ASSUME NEW d \in Nat \ {0}, NEW q \in Int, NEW r \in 0..(d - 1), NEW a \in Int, a = q * d + r
  PROVE  a \div d = q /\ a % d = r
<1> DEFINE p == a \div d
           m == a % d
<1>1. p \in Int /\ m \in 0..(d - 1) /\ a = p * d + m
  BY DivType, DivMod
<1> HIDE DEF p, m
<1>2. q * d \in Int /\ p * d \in Int
  BY <1>1, ProductInt
<1>3. (p + 1) * d = p * d + d /\ (q + 1) * d = q * d + d
  BY <1>1, ProductStep
<1>4. p < q + 1
  BY <1>1, <1>2, <1>3, ProductLess
<1>5. q < p + 1
  BY <1>1, <1>2, <1>3, ProductLess
<1>6. p = q
  BY <1>1, <1>4, <1>5
<1>7. m = r
  BY <1>1, <1>2, <1>6
<1> QED BY <1>6, <1>7 DEF p, m

\* The quotient of a number below q * d is below q.
LEMMA DivBound ==
  ASSUME NEW d \in Nat \ {0}, NEW q \in Int, NEW a \in Nat, a < q * d
  PROVE  a \div d \in Nat /\ a \div d < q
<1> DEFINE p == a \div d
           m == a % d
<1>1. p \in Int /\ m \in 0..(d - 1) /\ a = p * d + m
  BY DivType, DivMod
<1> HIDE DEF p, m
<1>2. q * d \in Int /\ p * d \in Int /\ 0 * d = 0
  BY <1>1, ProductInt
<1>3. (p + 1) * d = p * d + d
  BY <1>1, ProductStep
<1>4. p < q
  BY <1>1, <1>2, ProductLess
<1>5. 0 < p + 1
  BY <1>1, <1>2, <1>3, ProductLess
<1> QED BY <1>1, <1>4, <1>5 DEF p

\* How many pieces of d it takes to hold a, and what they leave unused.
LEMMA CeilIs ==
  ASSUME NEW d \in Nat \ {0}, NEW a \in Nat \ {0}, NEW q, q = (a + d - 1) \div d
  PROVE  q \in Nat \ {0} /\ a <= q * d /\ q * d - a < d /\ q * d \in Nat
<1> DEFINE b == a + d - 1
           m == b % d
<1>1. q \in Int /\ m \in 0..(d - 1) /\ b = q * d + m
  <2>1. b \in Int /\ q = b \div d
    OBVIOUS
  <2> HIDE DEF b
  <2> QED BY <2>1, DivType, DivMod
<1> HIDE DEF m
<1>2. q * d \in Int /\ 0 * d = 0
  BY <1>1, ProductInt
<1>3. a <= q * d /\ q * d - a < d
  BY <1>1, <1>2
<1>4. 0 < q
  BY <1>1, <1>2, <1>3, ProductLess
<1> QED BY <1>1, <1>2, <1>3, <1>4

\* A file fills all its clusters but the unused bytes of the last one.
LEMMA SizeFacts ==
  ASSUME SfsInv, NEW i \in Used
  PROVE  /\ Size(i) = Total(i) * ClusterData - fib[i].tail_cluster_unuse_byte
         /\ Size(i) \in Nat /\ Total(i) \in Nat \ {0}
         /\ fib[i].tail_cluster_unuse_byte \in 0..ClusterData
         /\ ClusterData \in Nat \ {0}
<1>1. i \in Fibs /\ Total(i) = fib[i].total_cluster /\ Total(i) \in Nat \ {0}
  BY InvFacts
<1>2. fib[i].tail_cluster_unuse_byte \in 0..ClusterData
  BY <1>1 DEF SfsInv, TypeOK
<1>3. ClusterData \in Nat \ {0}
  BY SfsAssumption
<1> DEFINE T == Total(i)
           u == fib[i].tail_cluster_unuse_byte
<1>4. Size(i) = (T - 1) * ClusterData + (ClusterData - u)
  BY <1>1 DEF Size
<1> HIDE DEF T, u
<1>5. T \in Nat \ {0} /\ u \in 0..ClusterData
  BY <1>1, <1>2 DEF T, u
<1>6. (T - 1) * ClusterData \in Nat
  BY <1>3, <1>5, ProductNat
<1>7. (T - 1) * ClusterData = T * ClusterData - ClusterData
  BY <1>3, <1>5, ProductStep
<1>8. T * ClusterData \in Nat
  BY <1>3, <1>5, ProductNat
<1>9. Size(i) = T * ClusterData - u /\ Size(i) \in Nat
  BY <1>3, <1>4, <1>5, <1>6, <1>7, <1>8
<1> QED BY <1>1, <1>2, <1>3, <1>9 DEF T, u

LEMMA OpenStep ==
  ASSUME SfsInv, NEW f \in Names, Open(f)
  PROVE  SfsInv'
<1>1. CASE UNCHANGED <<disk, file>>
  BY <1>1, NothingKept
<1>2. ASSUME mib.fit, NEW i \in Used, UNCHANGED disk,
             file' = [file EXCEPT ![i] =
               [length |-> Size(i), logic_position |-> 0,
                pIndex |-> Chain(iNext, fib[i].iHead, fib[i].total_cluster)]]
      PROVE  SfsInv'
  <2> DEFINE h == [length |-> Size(i), logic_position |-> 0, pIndex |-> ChainOf(i)]
  <2>1. i # FreeList /\ i \in Owners
    BY InvFacts DEF Owners
  <2>2. ChainOf(i) = Chain(iNext, fib[i].iHead, fib[i].total_cluster)
    BY <2>1 DEF ChainOf, First, Total
  <2>3. file' = [file EXCEPT ![i] = h]
    BY <1>2, <2>2
  <2>4. ChainOf(i) \in [1..Totals[i] -> Cluster] /\ Totals[i] \in Nat
    BY <1>2, <2>1, FitFacts, InvFacts
  <2>5. ChainOf(i) \in Seq(Cluster)
    BY <2>4, SeqDef
  <2>6. Size(i) \in Nat
    BY SizeFacts
  <2>7. h \in Handle /\ h.length = Size(i) /\ h.pIndex = ChainOf(i)
        /\ h.logic_position \in 0..h.length
    BY <2>5, <2>6 DEF Handle
  <2> HIDE DEF h
  <2> QED BY <1>2, <2>3, <2>7, HandleKept
<1>3. mib.fit \/ UNCHANGED <<disk, file>>
  BY DEF Open, Refuse, Named, SfsInv, RawInv
<1> QED BY <1>1, <1>2, <1>3 DEF Open, Refuse, Named

\* Only the places in the chains matter.
LEMMA SameChains ==
  ASSUME NEW own, NEW m, NEW t, NEW next, NEW pre, Placed(own, m, t), Chained(own, m, t, next, pre),
         NEW m2, NEW t2, \A o \in own : m2[o] = m[o] /\ t2[o] = t[o]
  PROVE  Placed(own, m2, t2) /\ Chained(own, m2, t2, next, pre)
<1>1. \A o \in own : m2[o] \in Nat /\ t2[o] \in [1..m2[o] -> Cluster]
  BY DEF Placed
<1>2. \A o, p \in own : \A k \in 1..m2[o], l \in 1..m2[p] :
        t2[o][k] = t2[p][l] => o = p /\ k = l
  BY DEF Placed
<1>3. ASSUME NEW c \in Cluster PROVE \E o \in own : \E k \in 1..m2[o] : t2[o][k] = c
  <2>1. PICK o \in own : \E k \in 1..m[o] : t[o][k] = c
    BY DEF Placed
  <2> QED BY <2>1
<1>4. Chained(own, m2, t2, next, pre)
  BY DEF Chained
<1> QED BY <1>1, <1>2, <1>3, <1>4 DEF Placed

\* The chains after a step, known by their links.
LEMMA ChainsAfter ==
  ASSUME NEW m, NEW t,
         Placed(Owners', m, t), Chained(Owners', m, t, iNext', iPre'),
         \A o \in Owners' : Total(o)' = m[o] /\ (m[o] > 0 => First(o)' = t[o][1])
  PROVE  /\ \A o \in Owners' : ChainOf(o)' = t[o]
         /\ Placed(Owners', Totals', Chains')
         /\ Chained(Owners', Totals', Chains', iNext', iPre')
<1>1. ASSUME NEW o \in Owners' PROVE ChainOf(o)' = t[o]
  <2>1. ChainOf(o)' = Chain(iNext', First(o)', m[o])
    BY DEF ChainOf
  <2>2. m[o] > 0 => t[o][1] = First(o)'
    OBVIOUS
  <2> QED BY <2>1, <2>2, ChainedIs
<1>2. \A o \in Owners' : Totals'[o] = m[o] /\ Chains'[o] = t[o]
  BY <1>1 DEF Totals, Chains
<1>3. Placed(Owners', Totals', Chains') /\ Chained(Owners', Totals', Chains', iNext', iPre')
  BY <1>2, SameChains
<1> QED BY <1>1, <1>3

LEMMA FormatStep ==
  ASSUME SfsInv, Format
  PROVE  SfsInv'
<1> DEFINE m == [o \in {FreeList} |-> NumCluster]
           t == [o \in {FreeList} |-> [k \in 1..NumCluster |-> k]]
<1> USE SfsAssumption
<1>1. /\ mib' = [fit |-> TRUE, free_FIB_count |-> NumFib,
                 free_cluster_count |-> NumCluster, iFree_cluster |-> 1]
      /\ fib' = [i \in Fibs |-> [NoFib EXCEPT !.tail_cluster_unuse_byte = ClusterData]]
      /\ iPre' = [c \in Links |-> IF c = 0 THEN Header ELSE c - 1]
      /\ iNext' = [c \in Links |-> IF c \in {0, NumCluster} THEN 0 ELSE c + 1]
      /\ data' = [c \in Cluster |-> EmptyCluster]
      /\ Opened = {} /\ file' = file
  BY DEF Format
<1>2. Used' = {}
  BY <1>1 DEF Used, NoFib
<1>3. Owners' = {FreeList}
  BY <1>2 DEF Owners
<1>4. Opened' = {}
  BY <1>1 DEF Opened
<1>5. Total(FreeList)' = NumCluster /\ First(FreeList)' = 1
  BY <1>1 DEF Total, First
<1>6. Placed(Owners', m, t)
  BY <1>3 DEF Placed, Cluster
<1>7. Chained(Owners', m, t, iNext', iPre')
  <2>1. \A k \in 1..(NumCluster - 1) : iNext'[k] = k + 1 /\ iPre'[k + 1] = k
    BY <1>1 DEF Links
  <2>2. iNext'[NumCluster] = 0
    BY <1>1 DEF Links
  <2> QED BY <1>3, <2>1, <2>2 DEF Chained
<1>8. \A o \in Owners' : Total(o)' = m[o] /\ (m[o] > 0 => First(o)' = t[o][1])
  BY <1>3, <1>5
<1>9. Placed(Owners', Totals', Chains') /\ Chained(Owners', Totals', Chains', iNext', iPre')
  <2> HIDE DEF m, t
  <2> QED BY <1>6, <1>7, <1>8, ChainsAfter
<1>10. KeptInv'
  BY <1>1, <1>2, <1>9, FS_EmptySet DEF KeptInv
<1>11. TypeOK'
  <2>1. mib' \in [fit : BOOLEAN, free_FIB_count : 0..NumFib,
                 free_cluster_count : Links, iFree_cluster : Links]
    BY <1>1 DEF Links
  <2>2. fib' \in [Fibs -> [fname : Names \cup {NoName}, iHead : Links, iTail : Links,
                          total_cluster : Links, tail_cluster_unuse_byte : 0..ClusterData]]
    BY <1>1 DEF NoFib, Links
  <2>3. iNext' \in [Links -> Links]
    BY <1>1 DEF Links
  <2>4. iPre' \in [Links -> Links \cup {Header}] /\ \A c \in Cluster : iPre'[c] \in Links
    BY <1>1 DEF Links, Cluster
  <2>5. data' \in [Cluster -> [0..(ClusterData - 1) -> Byte]]
    BY <1>1, EmptyIsBytes
  <2>6. file' \in [Fibs -> Handle \cup {None}]
    BY <1>1 DEF SfsInv, TypeOK
  <2> QED BY <1>4, <2>1, <2>2, <2>3, <2>4, <2>5, <2>6 DEF TypeOK
<1>12. Erased'
  <2>1. ChainOf(FreeList)' = [k \in 1..NumCluster |-> k]
    <3>1. \A o \in Owners' : ChainOf(o)' = t[o]
      <4> HIDE DEF m, t
      <4> QED BY <1>6, <1>7, <1>8, ChainsAfter
    <3> QED BY <1>3, <3>1
  <2> QED BY <1>1, <1>2, <1>5, <2>1 DEF Erased, Cluster
<1> QED BY <1>1, <1>2, <1>4, <1>10, <1>11, <1>12 DEF SfsInv, RawInv, HandlesInv, NamesInv

LEMMA PowerStep ==
  ASSUME PowerCycle
  PROVE  SfsInv'
<1> USE SfsAssumption
<1>1. Used' = {} /\ Opened' = {} /\ ~mib'.fit
  BY DEF PowerCycle, Used, Opened, RawDisk, NoFib
<1>2. mib'.free_FIB_count = 0 /\ mib'.free_cluster_count = 0 /\ mib'.iFree_cluster = 0
  BY DEF PowerCycle, RawDisk
<1>3. TypeOK'
  <2>1. mib' \in [fit : BOOLEAN, free_FIB_count : 0..NumFib,
                 free_cluster_count : Links, iFree_cluster : Links]
    BY DEF PowerCycle, RawDisk, Links
  <2>2. fib' \in [Fibs -> [fname : Names \cup {NoName}, iHead : Links, iTail : Links,
                          total_cluster : Links, tail_cluster_unuse_byte : 0..ClusterData]]
    BY DEF PowerCycle, RawDisk, NoFib, Links
  <2>3. /\ iNext' \in [Links -> Links]
        /\ iPre' \in [Links -> Links \cup {Header}] /\ \A c \in Cluster : iPre'[c] \in Links
    BY DEF PowerCycle, RawDisk, Links, Cluster
  <2>4. data' \in [Cluster -> [0..(ClusterData - 1) -> Byte]]
    BY EmptyIsBytes DEF PowerCycle, RawDisk
  <2>5. file' \in [Fibs -> Handle \cup {None}]
    BY DEF PowerCycle
  <2> QED BY <1>1, <2>1, <2>2, <2>3, <2>4, <2>5 DEF TypeOK
<1>4. Erased'
  BY <1>1, <1>2 DEF Erased, Total
<1> QED BY <1>1, <1>2, <1>3, <1>4 DEF SfsInv, KeptInv, RawInv, HandlesInv, NamesInv

\* Where the directory has room, the free block of lowest number is found.
LEMMA FreeFibFacts ==
  ASSUME SfsInv, mib.fit, mib.free_FIB_count # 0
  PROVE  /\ FreeFib \in Fibs /\ FreeFib \notin Used /\ FreeFib \notin Opened
         /\ FreeFib \notin Owners /\ FreeFib # FreeList
         /\ IsFiniteSet(Used) /\ Cardinality(Used) \in Nat
         /\ mib.free_FIB_count \in Nat /\ mib.free_FIB_count + Cardinality(Used) = NumFib
<1>1. NumFib \in Nat
  BY SfsAssumption
<1>2. IsFiniteSet(Fibs) /\ Cardinality(Fibs) = NumFib
  BY <1>1, FS_Interval DEF Fibs
<1>3. Used \in SUBSET Fibs
  BY InvFacts
<1>4. IsFiniteSet(Used) /\ Cardinality(Used) \in Nat
  BY <1>2, <1>3, FS_Subset, FS_CardinalityType
<1>5. mib.free_FIB_count \in Nat /\ mib.free_FIB_count + Cardinality(Used) = NumFib
  BY <1>1 DEF SfsInv, TypeOK, KeptInv
<1>6. Fibs \ Used # {}
  <2> SUFFICES ASSUME Fibs \ Used = {} PROVE FALSE
    OBVIOUS
  <2>1. Used = Fibs
    BY <1>3
  <2> QED BY <1>1, <1>2, <1>5, <2>1
<1>7. FreeFib \in Fibs \ Used
  <2> DEFINE S == Fibs \ Used
  <2>1. S \in SUBSET Nat /\ S # {}
    BY <1>6 DEF Fibs
  <2> HIDE DEF S
  <2>2. \E n \in S : \A k \in S : n <= k
    BY <2>1, LeastElement
  <2>3. Min(S) \in S
    BY <2>2, Zenon DEF Min
  <2> QED BY <2>3 DEF S, FreeFib
<1>8. FreeFib \notin Opened
  BY <1>7 DEF SfsInv, HandlesInv
<1>9. FreeFib # FreeList
  BY <1>7, InvFacts
<1> QED BY <1>4, <1>5, <1>7, <1>8, <1>9 DEF Owners

\* What a create that finds room does.
Created(f) ==
  LET head == mib.iFree_cluster
      rest == iNext[head]
  IN  /\ mib.free_FIB_count # 0 /\ mib.free_cluster_count # 0 /\ Named(f) = {}
      /\ fib' = [fib EXCEPT ![FreeFib] =
           [fname |-> f, iHead |-> head, iTail |-> head, total_cluster |-> 1,
            tail_cluster_unuse_byte |-> ClusterData]]
      /\ iNext' = [iNext EXCEPT ![head] = 0]
      /\ iPre' = [iPre EXCEPT ![rest] = 0]
      /\ mib' = [mib EXCEPT !.free_FIB_count = @ - 1,
                   !.iFree_cluster = rest, !.free_cluster_count = @ - 1]
      /\ data' = data /\ file' = file

LEMMA CreateCases ==
  ASSUME NEW f \in Names, Create(f)
  PROVE  Created(f) \/ UNCHANGED <<disk, file>>
BY DEF Create, Created, Refuse

LEMMA CreatedFacts ==
  ASSUME SfsInv, NEW f \in Names, Created(f),
         NEW head, head = mib.iFree_cluster, NEW rest, rest = iNext[head]
  PROVE  /\ mib.fit /\ head \in Cluster /\ head = Chains[FreeList][1]
         /\ rest \in Links
         /\ mib.free_cluster_count \in Nat \ {0} /\ FreeList \in Owners
         /\ mib.free_cluster_count = 1 => rest = 0
         /\ mib.free_cluster_count > 1 => rest = Chains[FreeList][2] /\ rest \in Cluster
<1>1. mib.fit /\ mib.free_cluster_count # 0
  BY DEF Created, SfsInv, RawInv
<1>2. /\ mib.free_cluster_count \in Nat \ {0} /\ FreeList \in Owners
      /\ Totals[FreeList] = mib.free_cluster_count
      /\ Chains[FreeList] \in [1..Totals[FreeList] -> Cluster]
  BY <1>1, InvFacts, FitFacts DEF Owners
<1>3. head = Chains[FreeList][1] /\ head \in Cluster
  BY <1>1, <1>2, FitFacts
<1>4. rest \in Links
  BY <1>3 DEF SfsInv, TypeOK, Cluster, Links
<1>5. Chained(Owners, Totals, Chains, iNext, iPre)
  BY <1>1, FitFacts
<1>6. mib.free_cluster_count = 1 => rest = 0
  BY <1>2, <1>3, <1>5 DEF Chained
<1>7. mib.free_cluster_count > 1 => rest = Chains[FreeList][2] /\ rest \in Cluster
  BY <1>2, <1>3, <1>5 DEF Chained
<1> QED BY <1>1, <1>2, <1>3, <1>4, <1>6, <1>7

\* The first free cluster becomes the chain of the new file.
LEMMA CreatedChains ==
  ASSUME SfsInv, NEW f \in Names, Created(f), NEW e, e = FreeFib
  PROVE  /\ Used' = Used \cup {e}
         /\ Total(FreeList)' = mib.free_cluster_count - 1 /\ Total(e)' = 1
         /\ \A k \in 1..(mib.free_cluster_count - 1) :
              ChainOf(FreeList)'[k] = Chains[FreeList][k + 1]
         /\ ChainOf(e)'[1] = mib.iFree_cluster
         /\ \A i \in Used : ChainOf(i)' = ChainOf(i) /\ Total(i)' = Total(i)
         /\ Placed(Owners', Totals', Chains')
         /\ Chained(Owners', Totals', Chains', iNext', iPre')
<1> DEFINE F == FreeList
           head == mib.iFree_cluster
           rest == iNext[head]
           own == Owners \cup {e}
           n == [o \in own |-> IF o = e THEN 0 ELSE Totals[o]]
           s == [o \in own |-> IF o = e THEN [k \in 1..0 |-> 0] ELSE Chains[o]]
           m == MovedCount(n, e, F, 1)
           t == MovedPlace(n, s, e, F, 1)
<1>1. /\ mib.fit /\ head \in Cluster /\ head = Chains[F][1] /\ rest \in Links
      /\ mib.free_cluster_count \in Nat \ {0} /\ F \in Owners
      /\ mib.free_cluster_count = 1 => rest = 0
      /\ mib.free_cluster_count > 1 => rest = Chains[F][2] /\ rest \in Cluster
  BY CreatedFacts
<1>2. e \in Fibs /\ e \notin Used /\ e \notin Owners /\ e # F
  BY <1>1, FreeFibFacts DEF Created
<1>3. fib' = [fib EXCEPT ![e] =
        [fname |-> f, iHead |-> head, iTail |-> head, total_cluster |-> 1,
         tail_cluster_unuse_byte |-> ClusterData]]
  BY DEF Created
<1>4. DOMAIN fib = Fibs /\ DOMAIN iNext = Links /\ DOMAIN iPre = Links
      /\ mib \in [fit : BOOLEAN, free_FIB_count : 0..NumFib,
                  free_cluster_count : Links, iFree_cluster : Links]
  BY DEF SfsInv, TypeOK
<1>5. Used' = Used \cup {e}
  BY <1>2, <1>3, <1>4 DEF Used
<1>6. Owners' = own
  BY <1>5 DEF Owners
<1>7. /\ n \in [own -> Nat] /\ DOMAIN s = own /\ e \in own /\ F \in own
      /\ n[e] = 0 /\ n[F] = mib.free_cluster_count /\ s[F] = Chains[F] /\ s[e] = [k \in 1..0 |-> 0]
      /\ \A q \in Owners : n[q] = Totals[q] /\ s[q] = Chains[q]
  BY <1>1, <1>2, InvFacts
<1>8. DOMAIN n = own
  OBVIOUS
<1> HIDE DEF n, s
<1>9. Placed(own, n, s) /\ Chained(own, n, s, iNext, iPre)
  <2>1. Placed(Owners, Totals, Chains) /\ Chained(Owners, Totals, Chains, iNext, iPre)
    BY <1>1, FitFacts
  <2>2. e \notin Owners /\ DOMAIN n = Owners \cup {e} /\ n[e] = 0 /\ s[e] = [k \in 1..0 |-> 0]
    BY <1>2, <1>7, <1>8
  <2>3. \A q \in Owners : n[q] = Totals[q] /\ s[q] = Chains[q]
    BY <1>7
  <2>4. Placed(Owners \cup {e}, n, s) /\ Chained(Owners \cup {e}, n, s, iNext, iPre)
    BY <2>1, <2>2, <2>3, AddedOwner
  <2> QED BY <2>4
<1>10. 1 \in 0..n[F] /\ 1 \in 1..n[F]
  BY <1>1, <1>7
<1>11. Moved(own, n, s, e, F, 1, m, t)
  <2> HIDE DEF m, t, F, own
  <2> QED BY <1>2, <1>7, <1>9, <1>10, MovedDef DEF m, t
<1> HIDE DEF m, t
<1>12. iNext' = [iNext EXCEPT ![head] = 0] /\ iPre' = [iPre EXCEPT ![rest] = 0]
  BY DEF Created
<1>13. Relinked(n, s, e, F, 1, iNext, iPre, iNext', iPre')
  <2>1. \A c \in Cluster : c \in Links
    BY DEF Cluster, Links
  <2>2. \A c \in Cluster : iNext'[c] = IF c = s[F][1] THEN 0 ELSE iNext[c]
    BY <1>1, <1>4, <1>7, <1>12, <2>1
  <2>3. \A c \in Cluster : c # rest => iPre'[c] = iPre[c]
    BY <1>4, <1>12, <2>1
  <2>4. rest = 0 \/ (1 < n[F] /\ rest = s[F][1 + 1])
    BY <1>1, <1>7
  <2>5. 0 \notin Cluster
    BY DEF Cluster
  <2>6. ~(n[e] > 0)
    BY <1>7
  <2> QED BY <2>2, <2>3, <2>4, <2>5, <2>6 DEF Relinked
<1>14. Placed(own, m, t)
  BY <1>2, <1>7, <1>9, <1>10, <1>11, MovedPlaced
<1>15. Chained(own, m, t, iNext', iPre')
  BY <1>2, <1>7, <1>9, <1>10, <1>11, <1>13, MovedChained
<1>16. /\ m[e] = 1 /\ m[F] = mib.free_cluster_count - 1
       /\ t[e][1] = head
       /\ \A k \in 1..m[F] : t[F][k] = Chains[F][k + 1]
       /\ \A q \in own \ {e, F} : m[q] = Totals[q] /\ t[q] = Chains[q]
  <2>1. m[e] = n[e] + 1 /\ m[F] = n[F] - 1
    BY <1>11 DEF Moved
  <2>2. t[e][n[e] + 1] = s[F][1]
    BY <1>11 DEF Moved
  <2>3. \A k \in 1..m[F] : t[F][k] = s[F][k + 1]
    BY <1>11 DEF Moved
  <2>4. \A q \in own \ {e, F} : m[q] = n[q] /\ t[q] = s[q]
    BY <1>11 DEF Moved
  <2> QED BY <1>1, <1>7, <2>1, <2>2, <2>3, <2>4
<1>17. Total(F)' = m[F] /\ First(F)' = rest
  BY <1>4, <1>16 DEF Total, First, Created
<1>18. Total(e)' = 1 /\ First(e)' = head
  <2>1. /\ Total(e)' = fib'[e].total_cluster
        /\ First(e)' = fib'[e].iHead
    BY <1>2 DEF Total, First
  <2> HIDE DEF head
  <2>2. fib'[e].total_cluster = 1 /\ fib'[e].iHead = head
    BY <1>2, <1>3, <1>4
  <2> QED BY <2>1, <2>2
<1>19. ASSUME NEW i \in Used
       PROVE  Total(i)' = m[i] /\ First(i)' = First(i) /\ t[i] = Chains[i] /\ m[i] = Totals[i]
  <2>1. i \in own \ {e, F} /\ i \in Fibs /\ i # F /\ i # e
    BY <1>2, InvFacts DEF Owners
  <2>2. fib'[i] = fib[i]
    BY <1>3, <1>4, <2>1
  <2>3. Total(i)' = fib[i].total_cluster /\ First(i)' = fib[i].iHead
    BY <2>1, <2>2 DEF Total, First
  <2>4. Totals[i] = fib[i].total_cluster /\ First(i) = fib[i].iHead
    BY <2>1, InvFacts DEF First
  <2> QED BY <1>16, <2>1, <2>3, <2>4
<1>20. \A o \in own : Total(o)' = m[o] /\ (m[o] > 0 => First(o)' = t[o][1])
  <2>1. m[F] > 0 => t[F][1] = rest
    BY <1>1, <1>16
  <2>2. \A i \in Used : m[i] > 0 => First(i) = t[i][1]
    BY <1>1, <1>19, FitFacts DEF Owners
  <2>3. \A o \in own : o = F \/ o = e \/ o \in Used
    BY DEF Owners
  <2>4. Total(F)' = m[F] /\ (m[F] > 0 => First(F)' = t[F][1])
    BY <1>17, <2>1
  <2>5. Total(e)' = m[e] /\ (m[e] > 0 => First(e)' = t[e][1])
    BY <1>16, <1>18
  <2>6. \A i \in Used : Total(i)' = m[i] /\ (m[i] > 0 => First(i)' = t[i][1])
    BY <1>19, <2>2
  <2> QED BY <2>3, <2>4, <2>5, <2>6
<1>21. /\ \A o \in own : ChainOf(o)' = t[o]
       /\ Placed(Owners', Totals', Chains')
       /\ Chained(Owners', Totals', Chains', iNext', iPre')
  BY <1>6, <1>14, <1>15, <1>20, ChainsAfter
<1>22. \A i \in Used : ChainOf(i)' = ChainOf(i) /\ Total(i)' = Total(i)
  BY <1>19, <1>21, InvFacts DEF Owners
<1>23. ChainOf(F)' = t[F] /\ ChainOf(e)' = t[e]
  BY <1>7, <1>21
<1> HIDE DEF own
<1> QED BY <1>5, <1>16, <1>17, <1>18, <1>21, <1>22, <1>23

LEMMA CreateStep ==
  ASSUME SfsInv, NEW f \in Names, Created(f)
  PROVE  SfsInv'
<1> DEFINE head == mib.iFree_cluster
           rest == iNext[head]
<1>1. PICK e : e = FreeFib
  OBVIOUS
<1>2. /\ mib.fit /\ head \in Cluster /\ head = Chains[FreeList][1] /\ rest \in Links
      /\ mib.free_cluster_count \in Nat \ {0}
      /\ mib.free_cluster_count = 1 => rest = 0
      /\ mib.free_cluster_count > 1 => rest \in Cluster
  BY CreatedFacts
<1>3. /\ e \in Fibs /\ e \notin Used /\ e \notin Opened
      /\ IsFiniteSet(Used) /\ Cardinality(Used) \in Nat
      /\ mib.free_FIB_count \in Nat /\ mib.free_FIB_count + Cardinality(Used) = NumFib
  BY <1>1, <1>2, FreeFibFacts DEF Created
<1>4. /\ Used' = Used \cup {e}
      /\ Total(FreeList)' = mib.free_cluster_count - 1 /\ Total(e)' = 1
      /\ \A k \in 1..(mib.free_cluster_count - 1) :
           ChainOf(FreeList)'[k] = Chains[FreeList][k + 1]
      /\ ChainOf(e)'[1] = mib.iFree_cluster
      /\ \A i \in Used : ChainOf(i)' = ChainOf(i) /\ Total(i)' = Total(i)
      /\ Placed(Owners', Totals', Chains')
      /\ Chained(Owners', Totals', Chains', iNext', iPre')
  BY <1>1, CreatedChains
<1>5. /\ mib \in [fit : BOOLEAN, free_FIB_count : 0..NumFib,
                  free_cluster_count : Links, iFree_cluster : Links]
      /\ fib \in [Fibs -> [fname : Names \cup {NoName}, iHead : Links, iTail : Links,
                           total_cluster : Links, tail_cluster_unuse_byte : 0..ClusterData]]
      /\ iNext \in [Links -> Links]
      /\ iPre \in [Links -> Links \cup {Header}] /\ \A c \in Cluster : iPre[c] \in Links
  BY DEF SfsInv, TypeOK
<1>6. NumCluster \in Nat \ {0} /\ NumFib \in Nat /\ ClusterData \in Nat \ {0} /\ NoName \notin Names
  BY SfsAssumption
<1> DEFINE r == [fname |-> f, iHead |-> head, iTail |-> head, total_cluster |-> 1,
                 tail_cluster_unuse_byte |-> ClusterData]
<1>7. /\ mib.free_FIB_count # 0
      /\ fib' = [fib EXCEPT ![e] = r]
      /\ iNext' = [iNext EXCEPT ![head] = 0]
      /\ iPre' = [iPre EXCEPT ![rest] = 0]
      /\ mib' = [mib EXCEPT !.free_FIB_count = @ - 1,
                   !.iFree_cluster = rest, !.free_cluster_count = @ - 1]
      /\ data' = data /\ file' = file
  BY <1>1 DEF Created
<1>8. /\ mib'.fit /\ mib'.free_FIB_count = mib.free_FIB_count - 1
      /\ mib'.free_cluster_count = mib.free_cluster_count - 1 /\ mib'.iFree_cluster = rest
      /\ mib' \in [fit : BOOLEAN, free_FIB_count : 0..NumFib,
                   free_cluster_count : Links, iFree_cluster : Links]
  <2>1. mib.free_FIB_count - 1 \in 0..NumFib
    BY <1>3, <1>6, <1>7
  <2>2. mib.free_cluster_count - 1 \in Links
    <3>1. mib.free_cluster_count \in Links
      BY <1>5
    <3> QED BY <1>2, <1>6, <3>1 DEF Links
  <2> HIDE DEF rest
  <2> QED BY <1>2, <1>5, <1>7, <2>1, <2>2
<1>9. /\ fib'[e] = r /\ \A i \in Fibs \ {e} : fib'[i] = fib[i]
      /\ fib' \in [Fibs -> [fname : Names \cup {NoName}, iHead : Links, iTail : Links,
                            total_cluster : Links, tail_cluster_unuse_byte : 0..ClusterData]]
  <2>1. r \in [fname : Names \cup {NoName}, iHead : Links, iTail : Links,
               total_cluster : Links, tail_cluster_unuse_byte : 0..ClusterData]
    BY <1>2, <1>6 DEF Cluster, Links
  <2> HIDE DEF r
  <2> QED BY <1>3, <1>5, <1>7, <2>1
<1>10. iNext' \in [Links -> Links]
  BY <1>5, <1>6, <1>7 DEF Links
<1>11. iPre' \in [Links -> Links \cup {Header}] /\ \A c \in Cluster : iPre'[c] \in Links
  BY <1>5, <1>6, <1>7 DEF Links, Cluster
<1>12. Opened' = Opened /\ e \notin Opened'
  BY <1>3, <1>7 DEF Opened
<1>13. Used \in SUBSET Fibs /\ Opened \subseteq Used
  BY InvFacts DEF SfsInv, HandlesInv
<1>14. \A i \in Opened : Size(i)' = Size(i)
  BY <1>3, <1>9, <1>13 DEF Size
<1>15. TypeOK'
  <2>1. data' \in [Cluster -> [0..(ClusterData - 1) -> Byte]] /\ file' \in [Fibs -> Handle \cup {None}]
    BY <1>7 DEF SfsInv, TypeOK
  <2>2. \A i \in Opened' : file'[i].length = Size(i)' /\ file'[i].logic_position \in 0..file'[i].length
    BY <1>7, <1>12, <1>14 DEF SfsInv, TypeOK
  <2> QED BY <1>8, <1>9, <1>10, <1>11, <2>1, <2>2 DEF TypeOK
<1>16. KeptInv'
  <2>1. \A i \in Used' : fib'[i].iTail = ChainOf(i)'[Total(i)']
    <3>1. fib'[e].iTail = ChainOf(e)'[Total(e)']
      BY <1>4, <1>9
    <3>2. ASSUME NEW i \in Used PROVE fib'[i].iTail = ChainOf(i)'[Total(i)']
      <4>1. fib[i].iTail = ChainOf(i)[Total(i)]
        BY <1>2 DEF SfsInv, KeptInv
      <4> QED BY <1>3, <1>4, <1>9, <1>13, <4>1
    <3> QED BY <1>4, <3>1, <3>2
  <2>2. mib'.free_cluster_count = 0 => mib'.iFree_cluster = 0
    BY <1>2, <1>8
  <2>3. Cardinality(Used') = Cardinality(Used) + 1
    BY <1>3, <1>4, FS_AddElement
  <2>4. mib'.free_FIB_count + Cardinality(Used') = NumFib
    BY <1>3, <1>8, <2>3
  <2> QED BY <1>4, <2>1, <2>2, <2>4 DEF KeptInv
<1>17. Erased'
  <2>1. /\ \A k \in 1..mib.free_cluster_count : data[Chains[FreeList][k]] = EmptyCluster
    <3>1. Total(FreeList) = mib.free_cluster_count /\ Chains[FreeList] = ChainOf(FreeList)
      BY InvFacts DEF Owners
    <3> QED BY <3>1 DEF SfsInv, Erased
  <2>2. \A k \in 1..Total(FreeList)' : data'[ChainOf(FreeList)'[k]] = EmptyCluster
    BY <1>2, <1>4, <1>7, <2>1
  <2>3. \A b \in 0..(ClusterData - 1) : data'[fib'[e].iTail][b] = Zero
    BY <1>2, <1>7, <1>9, <2>1 DEF EmptyCluster
  <2>4. ASSUME NEW i \in Used, NEW b \in 0..(ClusterData - 1),
               b >= ClusterData - fib'[i].tail_cluster_unuse_byte
        PROVE  data'[fib'[i].iTail][b] = Zero
    <3>1. fib'[i] = fib[i]
      BY <1>3, <1>9, <1>13
    <3> QED BY <1>7, <2>4, <3>1 DEF SfsInv, Erased
  <2> QED BY <1>4, <2>2, <2>3, <2>4 DEF Erased
<1>18. RawInv' /\ HandlesInv'
  <2>1. RawInv'
    BY <1>8 DEF RawInv
  <2>2. HandlesInv'
    BY <1>4, <1>7, <1>12, <1>13 DEF SfsInv, HandlesInv
  <2> QED BY <2>1, <2>2
<1>19. NamesInv'
  <2>1. fib'[e].fname = f /\ \A i \in Used : fib'[i].fname = fib[i].fname
    BY <1>3, <1>9, <1>13
  <2>2. \A i \in Used : fib[i].fname \in Names /\ fib[i].fname # f
    BY DEF SfsInv, NamesInv, Created, Named
  <2>3. \A i, k \in Used : fib[i].fname = fib[k].fname => i = k
    BY DEF SfsInv, NamesInv
  <2> QED BY <1>4, <2>1, <2>2, <2>3 DEF NamesInv
<1> QED BY <1>15, <1>16, <1>17, <1>18, <1>19 DEF SfsInv

\* What a delete that finds its file closed does.
Deleted(i) ==
  /\ i \in Used /\ mib.fit /\ i \notin Opened
  /\ Free(i)
  /\ fib' = [fib EXCEPT ![i] = [NoFib EXCEPT !.tail_cluster_unuse_byte = ClusterData]]
  /\ file' = file

LEMMA DeleteCases ==
  ASSUME NEW f \in Names, Delete(f), SfsInv
  PROVE  (\E i \in Named(f) : Deleted(i)) \/ UNCHANGED <<disk, file>>
<1>1. Named(f) # {} => mib.fit
  BY DEF SfsInv, RawInv, Named
<1>2. \A i \in Named(f) : i \in Used
  BY DEF Named
<1>3. CASE UNCHANGED <<disk, file>>
  BY <1>3
<1>4. CASE \E i \in Named(f) :
             i \notin Opened /\ Free(i) /\ Done /\ UNCHANGED file
             /\ fib' = [fib EXCEPT ![i] = [NoFib EXCEPT !.tail_cluster_unuse_byte = ClusterData]]
  BY <1>1, <1>2, <1>4 DEF Deleted
<1> QED BY <1>3, <1>4 DEF Delete, Refuse

\* Its chain, and behind it the free one, are the free chain.
LEMMA DeletedJoined ==
  ASSUME SfsInv, NEW i, Deleted(i)
  PROVE  \E m, t :
           /\ Placed(Owners, m, t) /\ Chained(Owners, m, t, iNext', iPre')
           /\ m[FreeList] = 0 /\ m[i] = Totals[i] + Totals[FreeList]
           /\ \A k \in 1..Totals[i] : t[i][k] = Chains[i][k]
           /\ \A k \in 1..Totals[FreeList] : t[i][Totals[i] + k] = Chains[FreeList][k]
           /\ \A q \in Owners \ {i, FreeList} : m[q] = Totals[q] /\ t[q] = Chains[q]
<1> DEFINE F == FreeList
           own == Owners
           n == Totals
           s == Chains
           tail == fib[i].iTail
           first == mib.iFree_cluster
<1>1. /\ i \in own /\ F \in own /\ i # F /\ i \in Used /\ n \in [own -> Nat] /\ DOMAIN s = own
      /\ n[F] = mib.free_cluster_count /\ n[i] \in Nat \ {0} /\ n[F] \in Nat
  BY InvFacts DEF Owners, Deleted
<1>2. /\ Placed(own, n, s) /\ Chained(own, n, s, iNext, iPre)
      /\ tail = s[i][n[i]]
      /\ n[F] > 0 => first = s[F][1]
      /\ n[F] = 0 => first = 0
  BY <1>1, FitFacts DEF Deleted
<1>3. s[i] \in [1..n[i] -> Cluster] /\ s[F] \in [1..n[F] -> Cluster]
  BY <1>1, <1>2 DEF Placed
<1>4. tail \in Cluster
  BY <1>1, <1>2, <1>3
<1>5. /\ iNext' = [iNext EXCEPT ![tail] = first]
      /\ iPre' = [iPre EXCEPT ![first] = tail]
  BY DEF Deleted, Free
<1>6. DOMAIN iNext = Links /\ DOMAIN iPre = Links /\ \A c \in Cluster : c \in Links
  BY DEF SfsInv, TypeOK, Cluster, Links
<1> HIDE DEF F, own, n, s, tail, first
<1>7. /\ \A c \in Cluster : iNext'[c] = IF c = tail THEN first ELSE iNext[c]
      /\ \A c \in Cluster : iPre'[c] = IF c = first THEN tail ELSE iPre[c]
  BY <1>5, <1>6
<1>8. CASE n[F] = 0
  <2>1. iNext[tail] = 0
    BY <1>1, <1>2 DEF Chained
  <2>2. \A c \in Cluster : iNext'[c] = iNext[c] /\ iPre'[c] = iPre[c]
    BY <1>2, <1>7, <1>8, <2>1 DEF Cluster
  <2>3. \A o \in own : n[o] \in Nat /\ \A k \in 1..n[o] : s[o][k] \in Cluster
    BY <1>2 DEF Placed
  <2>4. Chained(own, n, s, iNext', iPre')
    <3> SUFFICES ASSUME NEW o \in own
                 PROVE  /\ \A k \in 1..(n[o] - 1) : iNext'[s[o][k]] = s[o][k + 1]
                                                    /\ iPre'[s[o][k + 1]] = s[o][k]
                        /\ n[o] > 0 => iNext'[s[o][n[o]]] = 0
      BY DEF Chained
    <3>1. \A k \in 1..(n[o] - 1) : s[o][k] \in Cluster /\ s[o][k + 1] \in Cluster
      BY <2>3
    <3>2. n[o] > 0 => s[o][n[o]] \in Cluster
      BY <2>3
    <3> QED BY <1>2, <2>2, <3>1, <3>2 DEF Chained
  <2>5. n[i] = n[i] + n[F] /\ \A k \in 1..n[F] : s[i][n[i] + k] = s[F][k]
    BY <1>1, <1>8
  <2> QED BY <1>2, <1>8, <2>4, <2>5 DEF F, own, n, s
<1>9. CASE n[F] # 0
  <2> DEFINE j == n[F]
             m == MovedCount(n, i, F, j)
             t == MovedPlace(n, s, i, F, j)
  <2>1. j \in 0..n[F] /\ j \in 1..n[F] /\ 1 \in 1..n[F]
    BY <1>1, <1>9
  <2>2. Moved(own, n, s, i, F, j, m, t)
    <3> HIDE DEF j, m, t
    <3> QED BY <1>1, <1>2, <2>1, MovedDef DEF m, t
  <2> HIDE DEF m, t
  <2>3. iNext[s[F][j]] = 0 /\ s[F][j] # tail /\ s[F][j] \in Cluster /\ first \in Cluster
    <3>1. iNext[s[F][j]] = 0
      BY <1>1, <1>2, <1>9 DEF Chained
    <3>2. s[F][j] # s[i][n[i]]
      BY <1>1, <1>2, <2>1 DEF Placed
    <3> QED BY <1>1, <1>2, <1>3, <2>1, <3>1, <3>2
  <2>4. Relinked(n, s, i, F, j, iNext, iPre, iNext', iPre')
    <3>1. first = s[F][1]
      BY <1>1, <1>2, <1>9
    <3>2. \A c \in Cluster : iNext'[c] = IF n[i] > 0 /\ c = s[i][n[i]] THEN s[F][1]
                                         ELSE IF c = s[F][j] THEN 0 ELSE iNext[c]
      BY <1>1, <1>2, <1>7, <2>3, <3>1
    <3> QED BY <1>1, <1>2, <1>7, <2>3, <3>1, <3>2 DEF Relinked
  <2>5. Placed(own, m, t)
    BY <1>1, <1>2, <2>1, <2>2, MovedPlaced
  <2>6. Chained(own, m, t, iNext', iPre')
    <3> HIDE DEF j
    <3> QED BY <1>1, <1>2, <2>1, <2>2, <2>4, MovedChained
  <2>7. m[F] = 0 /\ m[i] = n[i] + n[F]
    BY <1>1, <2>2 DEF Moved
  <2>8. /\ \A k \in 1..n[i] : t[i][k] = s[i][k]
        /\ \A k \in 1..n[F] : t[i][n[i] + k] = s[F][k]
        /\ \A q \in own \ {i, F} : m[q] = n[q] /\ t[q] = s[q]
    BY <2>2 DEF Moved
  <2> QED BY <2>5, <2>6, <2>7, <2>8 DEF F, own, n, s
<1> QED BY <1>8, <1>9

LEMMA DeletedChains ==
  ASSUME SfsInv, NEW i, Deleted(i)
  PROVE  /\ Used' = Used \ {i} /\ Owners' = Owners \ {i}
         /\ Total(FreeList)' = Totals[i] + Totals[FreeList]
         /\ \A k \in 1..Totals[i] : ChainOf(FreeList)'[k] = Chains[i][k]
         /\ \A k \in 1..Totals[FreeList] : ChainOf(FreeList)'[Totals[i] + k] = Chains[FreeList][k]
         /\ \A q \in Used \ {i} : ChainOf(q)' = ChainOf(q) /\ Total(q)' = Total(q)
         /\ Placed(Owners', Totals', Chains')
         /\ Chained(Owners', Totals', Chains', iNext', iPre')
<1> DEFINE F == FreeList
<1>1. PICK m, t :
        /\ Placed(Owners, m, t) /\ Chained(Owners, m, t, iNext', iPre')
        /\ m[F] = 0 /\ m[i] = Totals[i] + Totals[F]
        /\ \A k \in 1..Totals[i] : t[i][k] = Chains[i][k]
        /\ \A k \in 1..Totals[F] : t[i][Totals[i] + k] = Chains[F][k]
        /\ \A q \in Owners \ {i, F} : m[q] = Totals[q] /\ t[q] = Chains[q]
  BY DeletedJoined
<1>2. /\ i \in Used /\ i \in Fibs /\ i \in Owners /\ F \in Owners /\ i # F
      /\ Totals[i] \in Nat \ {0} /\ Totals[F] \in Nat /\ Totals[i] = fib[i].total_cluster
      /\ Totals[F] = mib.free_cluster_count
  BY InvFacts DEF Deleted, Owners
<1>3. /\ fib' = [fib EXCEPT ![i] = [NoFib EXCEPT !.tail_cluster_unuse_byte = ClusterData]]
      /\ DOMAIN fib = Fibs
  BY DEF Deleted, SfsInv, TypeOK
<1>4. Used' = Used \ {i}
  BY <1>2, <1>3 DEF Used, NoFib
<1>5. Owners' = Owners \ {i}
  BY <1>2, <1>4 DEF Owners
<1> DEFINE m2 == [q \in Owners' |-> IF q = F THEN m[i] ELSE m[q]]
           t2 == [q \in Owners' |-> IF q = F THEN t[i] ELSE t[q]]
<1>6. /\ m2[F] = m[i] /\ t2[F] = t[i]
      /\ \A q \in Owners \ {i, F} : m2[q] = m[q] /\ t2[q] = t[q]
  BY <1>2, <1>5
<1> HIDE DEF m2, t2
<1>7. Placed(Owners', m2, t2) /\ Chained(Owners', m2, t2, iNext', iPre')
  <2> HIDE DEF F
  <2>1. Placed(Owners \ {i}, m2, t2) /\ Chained(Owners \ {i}, m2, t2, iNext', iPre')
    BY <1>1, <1>2, <1>6, TakenOver
  <2> QED BY <1>5, <2>1
<1>8. Total(F)' = m2[F] /\ First(F)' = t2[F][1] /\ t2[F][1] = fib[i].iHead
  <2>1. mib' = [mib EXCEPT !.iFree_cluster = fib[i].iHead, !.free_FIB_count = @ + 1,
                           !.free_cluster_count = @ + fib[i].total_cluster]
    BY DEF Deleted, Free
  <2>2. mib \in [fit : BOOLEAN, free_FIB_count : 0..NumFib,
                 free_cluster_count : Links, iFree_cluster : Links]
    BY DEF SfsInv, TypeOK
  <2>3. mib'.iFree_cluster = fib[i].iHead
        /\ mib'.free_cluster_count = mib.free_cluster_count + fib[i].total_cluster
    BY <2>1, <2>2
  <2>4. Total(F)' = mib'.free_cluster_count /\ First(F)' = mib'.iFree_cluster
    BY DEF Total, First
  <2>5. fib[i].iHead = Chains[i][1]
    BY <1>2, FitFacts DEF Deleted
  <2>6. t[i][1] = Chains[i][1]
    BY <1>1, <1>2
  <2> QED BY <1>1, <1>2, <1>6, <2>3, <2>4, <2>5, <2>6
<1>9. ASSUME NEW q \in Used \ {i}
      PROVE  /\ q \in Owners \ {i, F} /\ Total(q)' = Total(q) /\ First(q)' = First(q)
             /\ m2[q] = Totals[q] /\ t2[q] = Chains[q] /\ Totals[q] = Total(q)
             /\ Chains[q] = ChainOf(q) /\ First(q) = Chains[q][1]
  <2>1. q \in Owners \ {i, F} /\ q \in Fibs /\ q # F
    BY InvFacts DEF Owners
  <2>2. fib'[q] = fib[q]
    BY <1>3, <2>1
  <2>3. Total(q)' = Total(q) /\ First(q)' = First(q)
    BY <2>1, <2>2 DEF Total, First
  <2>4. Totals[q] = Total(q) /\ Chains[q] = ChainOf(q) /\ Totals[q] \in Nat \ {0}
    BY <2>1, InvFacts
  <2>5. First(q) = Chains[q][1]
    BY <2>1, <2>4, FitFacts DEF Deleted
  <2> QED BY <1>1, <1>6, <2>1, <2>3, <2>4, <2>5
<1>10. \A o \in Owners' : o = F \/ o \in Used \ {i}
  BY <1>5 DEF Owners
<1>11. \A o \in Owners' : Total(o)' = m2[o] /\ (m2[o] > 0 => First(o)' = t2[o][1])
  <2> HIDE DEF F
  <2> QED BY <1>8, <1>9, <1>10
<1>12. /\ \A o \in Owners' : ChainOf(o)' = t2[o]
       /\ Placed(Owners', Totals', Chains')
       /\ Chained(Owners', Totals', Chains', iNext', iPre')
  BY <1>7, <1>11, ChainsAfter
<1>13. ChainOf(F)' = t[i]
  BY <1>2, <1>5, <1>6, <1>12
<1>14. \A q \in Used \ {i} : ChainOf(q)' = ChainOf(q) /\ Total(q)' = Total(q)
  BY <1>5, <1>9, <1>12
<1> QED BY <1>1, <1>4, <1>5, <1>6, <1>8, <1>12, <1>13, <1>14

LEMMA DeletedErased ==
  ASSUME SfsInv, NEW i, Deleted(i)
  PROVE  /\ \A k \in 1..Totals[i] : data'[Chains[i][k]] = EmptyCluster
         /\ \A c \in Cluster : data'[c] = data[c] \/ data'[c] = EmptyCluster
<1> DEFINE all == {Chain(iNext, fib[i].iHead, NumCluster)[k] : k \in Cluster}
<1>1. /\ i \in Used /\ i \in Owners /\ i # FreeList /\ Totals[i] \in Nat \ {0}
      /\ Chains[i] = ChainOf(i) /\ Totals[i] = Total(i)
  BY InvFacts DEF Deleted, Owners
<1>2. ChainOf(i) \in [1..Totals[i] -> Cluster] /\ Totals[i] <= NumCluster
  BY <1>1, FitFacts DEF Deleted
<1>3. ChainOf(i) = Chain(iNext, fib[i].iHead, Totals[i])
  BY <1>1 DEF ChainOf, First
<1>4. \A k \in 1..Totals[i] : ChainOf(i)[k] = Chain(iNext, fib[i].iHead, NumCluster)[k]
  BY <1>1, <1>2, <1>3, ChainPrefix, SfsAssumption
<1>5. \A k \in 1..Totals[i] : k \in Cluster
  BY <1>1, <1>2, SfsAssumption DEF Cluster
<1>6. \A k \in 1..Totals[i] : Chains[i][k] \in Cluster /\ Chains[i][k] \in all
  BY <1>1, <1>2, <1>4, <1>5
<1>7. data' = [c \in Cluster |-> IF c \in all THEN EmptyCluster ELSE data[c]]
  BY DEF Deleted, Free
<1> HIDE DEF all
<1> QED BY <1>6, <1>7

LEMMA DeleteStep ==
  ASSUME SfsInv, NEW i, Deleted(i)
  PROVE  SfsInv'
<1> DEFINE head == fib[i].iHead
           tail == fib[i].iTail
           first == mib.iFree_cluster
           r == [NoFib EXCEPT !.tail_cluster_unuse_byte = ClusterData]
<1>1. /\ i \in Used /\ i \in Fibs /\ i # FreeList /\ mib.fit /\ i \notin Opened
      /\ Totals[i] \in Nat \ {0} /\ Totals[i] = fib[i].total_cluster
      /\ Totals[FreeList] = mib.free_cluster_count /\ Totals[FreeList] \in Nat
      /\ Chains[i] \in [1..Totals[i] -> Cluster]
      /\ head = Chains[i][1] /\ tail = Chains[i][Totals[i]]
  BY InvFacts, FitFacts DEF Deleted, Owners
<1>2. head \in Cluster /\ tail \in Cluster
  BY <1>1
<1>3. /\ Used' = Used \ {i} /\ Owners' = Owners \ {i}
      /\ Total(FreeList)' = Totals[i] + Totals[FreeList]
      /\ \A k \in 1..Totals[i] : ChainOf(FreeList)'[k] = Chains[i][k]
      /\ \A k \in 1..Totals[FreeList] : ChainOf(FreeList)'[Totals[i] + k] = Chains[FreeList][k]
      /\ \A q \in Used \ {i} : ChainOf(q)' = ChainOf(q) /\ Total(q)' = Total(q)
      /\ Placed(Owners', Totals', Chains')
      /\ Chained(Owners', Totals', Chains', iNext', iPre')
  BY DeletedChains
<1>4. /\ mib \in [fit : BOOLEAN, free_FIB_count : 0..NumFib,
                  free_cluster_count : Links, iFree_cluster : Links]
      /\ fib \in [Fibs -> [fname : Names \cup {NoName}, iHead : Links, iTail : Links,
                           total_cluster : Links, tail_cluster_unuse_byte : 0..ClusterData]]
      /\ iNext \in [Links -> Links]
      /\ iPre \in [Links -> Links \cup {Header}] /\ \A c \in Cluster : iPre[c] \in Links
      /\ mib.free_FIB_count + Cardinality(Used) = NumFib
  BY <1>1 DEF SfsInv, TypeOK, KeptInv
<1>5. NumCluster \in Nat \ {0} /\ NumFib \in Nat /\ ClusterData \in Nat \ {0}
  BY SfsAssumption
<1>6. /\ mib' = [mib EXCEPT !.iFree_cluster = head, !.free_FIB_count = @ + 1,
                   !.free_cluster_count = @ + fib[i].total_cluster]
      /\ iNext' = [iNext EXCEPT ![tail] = first]
      /\ iPre' = [iPre EXCEPT ![first] = tail]
      /\ fib' = [fib EXCEPT ![i] = r] /\ file' = file
  BY DEF Deleted, Free
<1>7. IsFiniteSet(Used) /\ Cardinality(Used) \in Nat
      /\ Cardinality(Used') = Cardinality(Used) - 1 /\ Cardinality(Used') \in Nat
  <2>1. IsFiniteSet(Fibs) /\ Used \in SUBSET Fibs
    BY <1>5, FS_Interval, InvFacts DEF Fibs
  <2>2. IsFiniteSet(Used)
    BY <2>1, FS_Subset
  <2>3. IsFiniteSet(Used \ {i}) /\ Cardinality(Used \ {i}) = Cardinality(Used) - 1
    BY <1>1, <2>2, FS_RemoveElement
  <2> QED BY <1>3, <2>2, <2>3, FS_CardinalityType
<1>8. mib.free_FIB_count \in Nat /\ mib.free_FIB_count + 1 \in 0..NumFib
  <2>1. mib.free_FIB_count \in 0..NumFib
    BY <1>4
  <2> QED BY <1>4, <1>5, <1>7, <2>1
<1>9. mib.free_cluster_count + fib[i].total_cluster \in Links
  <2>1. FreeList \in Owners'
    BY <1>1, <1>3 DEF Owners
  <2>2. Totals'[FreeList] <= NumCluster
    BY <1>3, <2>1, PlacedBound
  <2>3. Totals'[FreeList] = Total(FreeList)'
    BY <2>1 DEF Totals
  <2> QED BY <1>1, <1>3, <1>5, <2>2, <2>3 DEF Links
<1>10. /\ mib'.fit /\ mib'.free_FIB_count = mib.free_FIB_count + 1
       /\ mib'.iFree_cluster = head
       /\ mib'.free_cluster_count = mib.free_cluster_count + fib[i].total_cluster
       /\ mib' \in [fit : BOOLEAN, free_FIB_count : 0..NumFib,
                    free_cluster_count : Links, iFree_cluster : Links]
  <2>1. head \in Links
    BY <1>2 DEF Cluster, Links
  <2> HIDE DEF head
  <2> QED BY <1>1, <1>4, <1>6, <1>8, <1>9, <2>1
<1>11. /\ \A q \in Fibs \ {i} : fib'[q] = fib[q]
       /\ fib' \in [Fibs -> [fname : Names \cup {NoName}, iHead : Links, iTail : Links,
                             total_cluster : Links, tail_cluster_unuse_byte : 0..ClusterData]]
  <2>1. r \in [fname : Names \cup {NoName}, iHead : Links, iTail : Links,
               total_cluster : Links, tail_cluster_unuse_byte : 0..ClusterData]
    BY <1>5 DEF NoFib, Links
  <2> HIDE DEF r
  <2> QED BY <1>1, <1>4, <1>6, <2>1
<1>12. iNext' \in [Links -> Links] /\ first \in Links /\ tail \in Links
  <2>1. first \in Links /\ tail \in Links
    BY <1>2, <1>4 DEF Cluster, Links
  <2> QED BY <1>4, <1>6, <2>1
<1>13. iPre' \in [Links -> Links \cup {Header}] /\ \A c \in Cluster : iPre'[c] \in Links
  BY <1>4, <1>6, <1>12 DEF Links, Cluster
<1>14. Opened' = Opened /\ i \notin Opened'
  BY <1>1, <1>6 DEF Opened
<1>15. Used \in SUBSET Fibs /\ Opened \subseteq Used
  BY InvFacts DEF SfsInv, HandlesInv
<1>16. \A k \in Opened : Size(k)' = Size(k)
  BY <1>1, <1>11, <1>15 DEF Size
<1>17. TypeOK'
  <2>1. data' \in [Cluster -> [0..(ClusterData - 1) -> Byte]]
    <3>1. data \in [Cluster -> [0..(ClusterData - 1) -> Byte]]
      BY DEF SfsInv, TypeOK
    <3> QED BY <3>1, EmptyIsBytes DEF Deleted, Free
  <2>2. file' \in [Fibs -> Handle \cup {None}]
    BY <1>6 DEF SfsInv, TypeOK
  <2>3. \A k \in Opened' : file'[k].length = Size(k)' /\ file'[k].logic_position \in 0..file'[k].length
    BY <1>6, <1>14, <1>16 DEF SfsInv, TypeOK
  <2> QED BY <1>10, <1>11, <1>12, <1>13, <2>1, <2>2, <2>3 DEF TypeOK
<1>18. KeptInv'
  <2>1. \A k \in Used' : fib'[k].iTail = ChainOf(k)'[Total(k)']
    <3> SUFFICES ASSUME NEW k \in Used \ {i} PROVE fib'[k].iTail = ChainOf(k)'[Total(k)']
      BY <1>3
    <3>1. fib[k].iTail = ChainOf(k)[Total(k)]
      BY <1>1 DEF SfsInv, KeptInv
    <3> QED BY <1>3, <1>11, <1>15, <3>1
  <2>2. mib'.free_cluster_count # 0
    BY <1>1, <1>10
  <2>3. mib'.free_FIB_count + Cardinality(Used') = NumFib
    BY <1>4, <1>5, <1>7, <1>8, <1>10
  <2> QED BY <1>3, <2>1, <2>2, <2>3 DEF KeptInv
<1>19. Erased'
  <2>1. /\ \A k \in 1..Totals[i] : data'[Chains[i][k]] = EmptyCluster
        /\ \A c \in Cluster : data'[c] = data[c] \/ data'[c] = EmptyCluster
    BY DeletedErased
  <2>2. \A k \in 1..Totals[FreeList] : Chains[FreeList][k] \in Cluster
                                       /\ data[Chains[FreeList][k]] = EmptyCluster
    <3>1. Total(FreeList) = Totals[FreeList] /\ Chains[FreeList] = ChainOf(FreeList)
          /\ ChainOf(FreeList) \in [1..Totals[FreeList] -> Cluster]
      BY <1>1, InvFacts, FitFacts DEF Owners
    <3> QED BY <1>1, <3>1 DEF SfsInv, Erased
  <2>3. ASSUME NEW k \in 1..Total(FreeList)' PROVE data'[ChainOf(FreeList)'[k]] = EmptyCluster
    <3>1. CASE k <= Totals[i]
      BY <1>1, <1>3, <2>1, <3>1
    <3>2. CASE ~(k <= Totals[i])
      <4> DEFINE l == k - Totals[i]
      <4>1. l \in 1..Totals[FreeList] /\ k = Totals[i] + l
        BY <1>1, <1>3, <3>2
      <4> HIDE DEF l
      <4>2. ChainOf(FreeList)'[k] = Chains[FreeList][l]
        BY <1>3, <4>1
      <4> QED BY <2>1, <2>2, <4>1, <4>2
    <3> QED BY <3>1, <3>2
  <2>4. ASSUME NEW k \in Used \ {i}, NEW b \in 0..(ClusterData - 1),
               b >= ClusterData - fib'[k].tail_cluster_unuse_byte
        PROVE  data'[fib'[k].iTail][b] = Zero
    <3>1. fib'[k] = fib[k]
      BY <1>11, <1>15
    <3>2. data[fib[k].iTail][b] = Zero
      BY <2>4, <3>1 DEF SfsInv, Erased
    <3>3. fib[k].iTail \in Cluster
      <4>1. Totals[k] \in Nat \ {0} /\ fib[k].iTail = Chains[k][Totals[k]]
            /\ Chains[k] \in [1..Totals[k] -> Cluster]
        BY <1>1, InvFacts, FitFacts DEF Owners
      <4> QED BY <4>1
    <3>4. EmptyCluster[b] = Zero
      BY DEF EmptyCluster
    <3> QED BY <2>1, <3>1, <3>2, <3>3, <3>4
  <2> QED BY <1>3, <2>3, <2>4 DEF Erased
<1>20. RawInv'
  BY <1>10 DEF RawInv
<1>21. HandlesInv'
  BY <1>3, <1>6, <1>14, <1>15 DEF SfsInv, HandlesInv
<1>22. NamesInv'
  BY <1>3, <1>11, <1>15 DEF SfsInv, NamesInv
<1> QED BY <1>17, <1>18, <1>19, <1>20, <1>21, <1>22 DEF SfsInv

\* What a write comes to that ends at end, adds j clusters and leaves u bytes of the last
\* cluster unused: the clusters hold its end, and the file grows up to it.
WriteEnds(i, j, end, u) ==
  /\ j \in Nat /\ end \in Nat /\ u \in 0..ClusterData
  /\ end <= (Total(i) + j) * ClusterData
  /\ Max({file[i].length, end}) = (Total(i) + j) * ClusterData - u
  /\ Max({file[i].length, end}) \in Nat
  /\ end <= Max({file[i].length, end}) /\ file[i].length <= Max({file[i].length, end})
  /\ j = 0 => u <= fib[i].tail_cluster_unuse_byte

LEMMA WriteSizes ==
  ASSUME SfsInv, NEW i \in Opened, NEW n \in Nat \ {0}, NEW j, j = Missing(i, n),
         NEW end, end = file[i].logic_position + n,
         NEW u, u = IF end > file[i].length THEN (-end) % ClusterData
                    ELSE fib[i].tail_cluster_unuse_byte
  PROVE  WriteEnds(i, j, end, u)
<1> DEFINE d == ClusterData
           pos == file[i].logic_position
           len == file[i].length
           T == Total(i)
           un == fib[i].tail_cluster_unuse_byte
<1>1. /\ len \in Nat /\ pos \in Nat /\ pos <= len /\ i \in Used /\ mib.fit
      /\ file[i].pIndex = ChainOf(i) /\ len = Size(i)
  BY HandleFacts
<1>2. len = T * d - un /\ T \in Nat \ {0} /\ un \in 0..d /\ d \in Nat \ {0}
  BY <1>1, SizeFacts
<1>3. Len(file[i].pIndex) = T
  <2>1. ChainOf(i) \in [1..T -> Cluster]
    BY <1>1, InvFacts, FitFacts DEF Owners
  <2>2. ChainOf(i) \in Seq(Cluster)
    BY <1>2, <2>1, SeqDef
  <2>3. DOMAIN ChainOf(i) = 1..T /\ DOMAIN ChainOf(i) = 1..Len(ChainOf(i)) /\ Len(ChainOf(i)) \in Nat
    BY <2>1, <2>2, LenProperties
  <2> HIDE DEF T
  <2> QED BY <1>1, <1>2, <2>3
<1>4. j = IF end > T * d THEN ((n - (len - pos) - un) + d - 1) \div d ELSE 0
  BY <1>3 DEF Missing
<1> HIDE DEF d, pos, len, T, un
<1>5. T * d \in Nat
  BY <1>2, ProductNat
<1>6. end \in Nat /\ end = pos + n
  BY <1>1 DEF pos
<1>7. Max({len, end}) = IF len >= end THEN len ELSE end
  BY <1>1, <1>6, MaxOfTwo
<1>8. CASE end > T * d
  <2> DEFINE a == end - T * d
  <2>1. a \in Nat \ {0} /\ (n - (len - pos) - un) + d - 1 = a + d - 1
    BY <1>1, <1>2, <1>5, <1>6, <1>8
  <2>2. j = (a + d - 1) \div d
    BY <1>4, <1>8, <2>1
  <2> HIDE DEF a
  <2>3. j \in Nat \ {0} /\ a <= j * d /\ j * d - a < d /\ j * d \in Nat
    BY <1>2, <2>1, <2>2, CeilIs
  <2>4. (T + j) * d = T * d + j * d
    BY <1>2, <2>3, ProductSum
  <2>5. end <= (T + j) * d /\ (T + j) * d - end \in 0..(d - 1)
    BY <1>2, <1>5, <1>6, <2>1, <2>3, <2>4 DEF a
  <2>6. end > len
    BY <1>1, <1>2, <1>5, <1>6, <1>8
  <2>7. u = (T + j) * d - end
    <3> DEFINE r == (T + j) * d - end
               q == -(T + j)
    <3>1. q \in Int /\ q * d = -((T + j) * d) /\ T + j \in Int
      BY <1>2, <2>3, ProductNeg
    <3>2. (T + j) * d \in Int
      BY <1>5, <2>3, <2>4
    <3>3. -end \in Int /\ -end = q * d + r /\ r \in 0..(d - 1)
      BY <1>6, <2>5, <3>1, <3>2
    <3>4. (-end) % d = r
      <4> DEFINE neg == -end
      <4> HIDE DEF q, r, neg
      <4>1. neg \in Int /\ neg = q * d + r
        BY <3>3 DEF neg
      <4>2. d \in Nat \ {0} /\ q \in Int /\ r \in 0..(d - 1)
        BY <1>2, <3>1, <3>3
      <4>3. neg % d = r
        BY <4>1, <4>2, DivIs
      <4> QED BY <4>3 DEF neg
    <3> HIDE DEF r
    <3> QED BY <2>6, <3>4 DEF r, d, len
  <2>8. Max({len, end}) = end
    BY <1>1, <1>6, <1>7, <2>6
  <2>9. u \in 0..d /\ end = (T + j) * d - u /\ j # 0
    BY <1>2, <1>5, <1>6, <2>3, <2>4, <2>5, <2>7
  <2> QED BY <1>1, <1>6, <2>3, <2>5, <2>6, <2>8, <2>9 DEF WriteEnds, d, len, T, un
<1>9. CASE ~(end > T * d)
  <2>1. j = 0 /\ (T + j) * d = T * d
    BY <1>2, <1>4, <1>9
  <2>2. CASE end > len
    <3> DEFINE r == T * d - end
               q == -T
    <3>1. q \in Int /\ q * d = -(T * d)
      BY <1>2, ProductNeg
    <3>2. -end \in Int /\ -end = q * d + r /\ r \in 0..(d - 1) /\ r <= un
      BY <1>2, <1>5, <1>6, <1>9, <2>2, <3>1
    <3> HIDE DEF q
    <3>3. (-end) % d = r
      <4> DEFINE neg == -end
      <4> HIDE DEF r, neg
      <4>1. neg \in Int /\ neg = q * d + r
        BY <3>2 DEF neg
      <4>2. neg % d = r
        BY <1>2, <3>1, <3>2, <4>1, DivIs
      <4> QED BY <4>2 DEF neg
    <3>4. u = T * d - end
      BY <2>2, <3>3 DEF d, len
    <3> QED BY <1>1, <1>2, <1>5, <1>6, <1>7, <1>9, <2>1, <2>2, <3>2, <3>4 DEF WriteEnds, d, len, T, un
  <2>3. CASE ~(end > len)
    <3>1. u = un
      BY <2>3 DEF len, un
    <3> QED BY <1>1, <1>2, <1>5, <1>6, <1>7, <1>9, <2>1, <2>3, <3>1 DEF WriteEnds, d, len, T, un
  <2> QED BY <2>2, <2>3
<1> QED BY <1>5, <1>6, <1>8, <1>9

\* What a write that finds its clusters does.
Written(i, s) ==
  LET h    == file[i]
      end  == h.logic_position + Len(s)
      j    == Missing(i, Len(s))
      new  == Grown(i, j)
      size == Len(h.pIndex) + j
      all  == IF j = 0 THEN h.pIndex ELSE Chain(new.iNext, fib[i].iHead, size)
  IN  /\ j <= mib.free_cluster_count
      /\ iPre' = new.iPre /\ iNext' = new.iNext
      /\ mib' = [mib EXCEPT !.iFree_cluster = new.iFree,
                   !.free_cluster_count = @ - j]
      /\ fib' = [fib EXCEPT ![i].iTail = new.iTail, ![i].total_cluster = @ + j,
                   ![i].tail_cluster_unuse_byte =
                     IF end > h.length THEN (-end) % ClusterData ELSE @]
      /\ file' = [file EXCEPT ![i] =
           [length |-> Max({h.length, end}), logic_position |-> end,
            pIndex |-> all]]
      /\ Put(all, h.logic_position, s)

LEMMA WriteCases ==
  ASSUME NEW i \in Fibs, NEW s \in Texts, Write(i, s)
  PROVE  i \in Opened /\ (Written(i, s) \/ UNCHANGED <<disk, file>>)
BY Zenon DEF Write, Written, Refuse

\* The free clusters that a file is given.
LEMMA GrownFacts ==
  ASSUME SfsInv, mib.fit, NEW i \in Used, NEW j \in 1..mib.free_cluster_count,
         NEW rest, rest = iNext[Chains[FreeList][j]]
  PROVE  LET first == Chains[FreeList][1]
             last  == Chains[FreeList][j]
             pre   == [iPre EXCEPT ![first] = fib[i].iTail]
         IN  /\ Grown(i, j).iPre = IF rest # 0 THEN [pre EXCEPT ![rest] = 0] ELSE pre
             /\ Grown(i, j).iNext = [iNext EXCEPT ![fib[i].iTail] = first, ![last] = 0]
             /\ Grown(i, j).iTail = last /\ Grown(i, j).iFree = rest
             /\ j = mib.free_cluster_count => rest = 0
             /\ j < mib.free_cluster_count => rest = Chains[FreeList][j + 1] /\ rest \in Cluster
<1> DEFINE F == FreeList
           first == Chains[F][1]
           last == Chains[F][j]
           pre == [iPre EXCEPT ![first] = fib[i].iTail]
           n == mib.free_cluster_count
<1>1. /\ F \in Owners /\ n \in Nat /\ Totals[F] = n /\ Chains[F] = ChainOf(F)
      /\ Chains[F] \in [1..n -> Cluster] /\ mib.iFree_cluster = first
      /\ Placed(Owners, Totals, Chains) /\ Chained(Owners, Totals, Chains, iNext, iPre)
  BY InvFacts, FitFacts DEF Owners
<1>2. ChainOf(F) = Chain(iNext, first, n)
  BY <1>1, InvFacts DEF ChainOf, First
<1>3. Chain(iNext, first, j)[j] = last
  <2>1. j \in Nat /\ j <= n /\ j \in 1..j
    BY <1>1
  <2>2. Chain(iNext, first, j)[j] = Chain(iNext, first, n)[j]
    BY <1>1, <2>1, ChainPrefix
  <2> QED BY <1>1, <1>2, <2>2
<1>4. last \in Cluster /\ first \in Cluster
  BY <1>1
<1>5. j = n => rest = 0
  BY <1>1 DEF Chained
<1>6. j < n => rest = Chains[F][j + 1] /\ rest \in Cluster /\ iPre[rest] = last /\ rest # first
  <2> SUFFICES ASSUME j < n
               PROVE  rest = Chains[F][j + 1] /\ rest \in Cluster /\ iPre[rest] = last /\ rest # first
    OBVIOUS
  <2>1. j \in 1..(Totals[F] - 1) /\ j + 1 \in 1..n /\ 1 \in 1..n /\ j + 1 # 1
    BY <1>1
  <2>2. rest = Chains[F][j + 1] /\ iPre[rest] = last
    BY <1>1, <2>1 DEF Chained
  <2>3. rest # first
    BY <1>1, <2>1, <2>2 DEF Placed
  <2> QED BY <1>1, <2>1, <2>2, <2>3
<1>7. DOMAIN iPre = Links /\ \A c \in Cluster : c \in Links /\ c # 0
  BY DEF SfsInv, TypeOK, Cluster, Links
<1>8. rest # 0 => j < n
  BY <1>1, <1>5
<1>9. rest # 0 => pre[rest] = last
  BY <1>6, <1>7, <1>8
<1>10. j # 0 /\ mib.iFree_cluster = first
  BY <1>1
<1>11. Grown(i, j) = [iPre |-> IF rest # 0 THEN [pre EXCEPT ![rest] = 0] ELSE pre,
                      iNext |-> [iNext EXCEPT ![fib[i].iTail] = first, ![last] = 0],
                      iTail |-> last, iFree |-> rest]
  <2> HIDE DEF pre, first, last
  <2>1. (IF rest # 0 THEN pre[rest] ELSE last) = last
    BY <1>9
  <2>2. /\ Chain(iNext, first, j)[j] = last /\ iNext[last] = rest
        /\ pre = [iPre EXCEPT ![first] = fib[i].iTail]
    BY <1>3 DEF last, pre
  <2> QED BY <1>10, <2>1, <2>2 DEF Grown
<1> HIDE DEF pre
<1>12. /\ Grown(i, j).iPre = IF rest # 0 THEN [pre EXCEPT ![rest] = 0] ELSE pre
       /\ Grown(i, j).iNext = [iNext EXCEPT ![fib[i].iTail] = first, ![last] = 0]
       /\ Grown(i, j).iTail = last /\ Grown(i, j).iFree = rest
  BY <1>11
<1> QED BY <1>5, <1>6, <1>12 DEF pre

LEMMA GrownFree ==
  ASSUME SfsInv, mib.fit, NEW i \in Used, NEW j \in 1..mib.free_cluster_count
  PROVE  /\ Grown(i, j).iTail = Chains[FreeList][j]
         /\ j = mib.free_cluster_count => Grown(i, j).iFree = 0
         /\ j < mib.free_cluster_count =>
              Grown(i, j).iFree = Chains[FreeList][j + 1] /\ Grown(i, j).iFree \in Cluster
<1>1. \A x : x = iNext[Chains[FreeList][j]] =>
        LET fst == Chains[FreeList][1]
            lst == Chains[FreeList][j]
            p   == [iPre EXCEPT ![fst] = fib[i].iTail]
        IN  /\ Grown(i, j).iPre = IF x # 0 THEN [p EXCEPT ![x] = 0] ELSE p
            /\ Grown(i, j).iNext = [iNext EXCEPT ![fib[i].iTail] = fst, ![lst] = 0]
            /\ Grown(i, j).iTail = lst /\ Grown(i, j).iFree = x
            /\ j = mib.free_cluster_count => x = 0
            /\ j < mib.free_cluster_count => x = Chains[FreeList][j + 1] /\ x \in Cluster
  BY GrownFacts, Zenon
<1>2. PICK x : x = iNext[Chains[FreeList][j]]
  OBVIOUS
<1> QED BY <1>1, <1>2, Zenon

\* The free clusters come behind the tail of the file: what a write leaves of the links.
LEMMA GrownLinks ==
  ASSUME SfsInv, mib.fit, NEW i \in Used, NEW j \in 1..mib.free_cluster_count,
         iPre' = Grown(i, j).iPre, iNext' = Grown(i, j).iNext
  PROVE  /\ Relinked(Totals, Chains, i, FreeList, j, iNext, iPre, iNext', iPre')
         /\ iNext' \in [Links -> Links] /\ iPre'[0] = iPre[0]
         /\ iPre' \in [Links -> Links \cup {Header}] /\ \A c \in Cluster : iPre'[c] \in Links
<1> DEFINE F == FreeList
           first == Chains[F][1]
           last == Chains[F][j]
           tail == fib[i].iTail
           rest == iNext[last]
           pre == [iPre EXCEPT ![first] = tail]
           count == mib.free_cluster_count
<1>1. /\ i \in Owners /\ F \in Owners /\ i # F /\ count \in Nat /\ Totals[F] = count
      /\ Totals[i] \in Nat \ {0} /\ tail = Chains[i][Totals[i]]
      /\ Chains[i] \in [1..Totals[i] -> Cluster] /\ Chains[F] \in [1..count -> Cluster]
      /\ Placed(Owners, Totals, Chains)
  BY InvFacts, FitFacts DEF Owners
<1>2. first \in Cluster /\ last \in Cluster /\ tail \in Cluster
  BY <1>1
<1>3. tail # last /\ first # tail
  <2>1. j \in 1..Totals[F] /\ 1 \in 1..Totals[F] /\ Totals[i] \in 1..Totals[i]
    BY <1>1
  <2> QED BY <1>1, <2>1 DEF Placed
<1>4. /\ iPre' = IF rest # 0 THEN [pre EXCEPT ![rest] = 0] ELSE pre
      /\ iNext' = [iNext EXCEPT ![tail] = first, ![last] = 0]
      /\ j = count => rest = 0
      /\ j < count => rest = Chains[F][j + 1] /\ rest \in Cluster
  <2>0. rest = iNext[Chains[FreeList][j]]
    OBVIOUS
  <2> HIDE DEF rest
  <2>1. /\ Grown(i, j).iPre = IF rest # 0 THEN [pre EXCEPT ![rest] = 0] ELSE pre
        /\ Grown(i, j).iNext = [iNext EXCEPT ![tail] = first, ![last] = 0]
        /\ j = count => rest = 0
        /\ j < count => rest = Chains[F][j + 1] /\ rest \in Cluster
    <3>1. \A x : x = iNext[Chains[FreeList][j]] =>
            LET fst == Chains[FreeList][1]
                lst == Chains[FreeList][j]
                p   == [iPre EXCEPT ![fst] = fib[i].iTail]
            IN  /\ Grown(i, j).iPre = IF x # 0 THEN [p EXCEPT ![x] = 0] ELSE p
                /\ Grown(i, j).iNext = [iNext EXCEPT ![fib[i].iTail] = fst, ![lst] = 0]
                /\ Grown(i, j).iTail = lst /\ Grown(i, j).iFree = x
                /\ j = mib.free_cluster_count => x = 0
                /\ j < mib.free_cluster_count => x = Chains[FreeList][j + 1] /\ x \in Cluster
      BY GrownFacts, Zenon
    <3> QED BY <2>0, <3>1, Zenon
  <2> HIDE DEF pre, first, last, tail
  <2> QED BY <2>1
<1>5. /\ iNext \in [Links -> Links]
      /\ iPre \in [Links -> Links \cup {Header}] /\ \A c \in Cluster : iPre[c] \in Links
      /\ \A c \in Cluster : c \in Links /\ c # 0
      /\ 0 \in Links
  <2>1. (\A c \in Cluster : c \in Links /\ c # 0) /\ 0 \in Links
    BY SfsAssumption DEF Cluster, Links
  <2> QED BY <2>1 DEF SfsInv, TypeOK
<1>6. rest # 0 => rest \in Cluster /\ j < count /\ rest = Chains[F][j + 1]
  BY <1>1, <1>4
<1>7. rest # 0 => rest # first
  <2>1. j < count => j + 1 \in 1..Totals[F] /\ 1 \in 1..Totals[F] /\ j + 1 # 1
    BY <1>1
  <2>2. j < count => Chains[F][j + 1] # Chains[F][1]
    BY <1>1, <2>1 DEF Placed
  <2> HIDE DEF rest
  <2> QED BY <1>6, <2>2
<1> HIDE DEF first, last, tail, rest, count
<1>8. \A c \in Links : iNext'[c] = IF c = tail THEN first ELSE IF c = last THEN 0 ELSE iNext[c]
  BY <1>2, <1>3, <1>4, <1>5
<1>9. \A c \in Links : iPre'[c] = IF c = first THEN tail
                                  ELSE IF rest # 0 /\ c = rest THEN 0 ELSE iPre[c]
  <2>1. CASE rest = 0
    BY <1>2, <1>4, <1>5, <2>1
  <2>2. CASE rest # 0
    BY <1>2, <1>4, <1>5, <1>7, <2>2
  <2> QED BY <2>1, <2>2
<1>10. DOMAIN iNext' = Links /\ DOMAIN iPre' = Links
  BY <1>4, <1>5
<1>11. iNext' = [c \in Links |-> iNext'[c]] /\ iPre' = [c \in Links |-> iPre'[c]]
  BY <1>4, <1>5
<1>12. \A c \in Links : iNext'[c] \in Links /\ iPre'[c] \in Links \cup {Header}
  BY <1>2, <1>5, <1>8, <1>9
<1>13. iNext' \in [Links -> Links] /\ iPre' \in [Links -> Links \cup {Header}]
  BY <1>11, <1>12
<1>14. \A c \in Cluster : iPre'[c] \in Links
  BY <1>2, <1>5, <1>9
<1>15. iPre'[0] = iPre[0]
  BY <1>2, <1>5, <1>9
<1>16. Relinked(Totals, Chains, i, FreeList, j, iNext, iPre, iNext', iPre')
  <2>1. \A c \in Cluster :
          iNext'[c] = IF Totals[i] > 0 /\ c = Chains[i][Totals[i]] THEN Chains[F][1]
                      ELSE IF c = Chains[F][j] THEN 0 ELSE iNext[c]
    BY <1>1, <1>5, <1>8 DEF first, last, tail
  <2>2. \A c \in Cluster : c # Chains[F][1] /\ (j < Totals[F] => c # Chains[F][j + 1])
                           => iPre'[c] = iPre[c]
    BY <1>1, <1>5, <1>6, <1>9 DEF first, count
  <2>3. iPre'[Chains[F][1]] = Chains[i][Totals[i]]
    BY <1>1, <1>2, <1>5, <1>9 DEF first, tail
  <2> QED BY <2>1, <2>2, <2>3 DEF Relinked
<1> QED BY <1>13, <1>14, <1>15, <1>16

LEMMA GrownJoined ==
  ASSUME SfsInv, mib.fit, NEW i \in Used, NEW j \in 0..mib.free_cluster_count,
         iPre' = Grown(i, j).iPre, iNext' = Grown(i, j).iNext
  PROVE  /\ \E m, t :
              /\ Placed(Owners, m, t) /\ Chained(Owners, m, t, iNext', iPre')
              /\ m[FreeList] = Totals[FreeList] - j /\ m[i] = Totals[i] + j
              /\ \A k \in 1..Totals[i] : t[i][k] = Chains[i][k]
              /\ \A k \in 1..j : t[i][Totals[i] + k] = Chains[FreeList][k]
              /\ \A k \in 1..(Totals[FreeList] - j) : t[FreeList][k] = Chains[FreeList][k + j]
              /\ \A q \in Owners \ {i, FreeList} : m[q] = Totals[q] /\ t[q] = Chains[q]
         /\ iNext' \in [Links -> Links] /\ iPre'[0] = iPre[0]
         /\ iPre' \in [Links -> Links \cup {Header}] /\ \A c \in Cluster : iPre'[c] \in Links
<1> DEFINE F == FreeList
           own == Owners
           n == Totals
           s == Chains
<1>1. /\ i \in own /\ F \in own /\ i # F /\ n \in [own -> Nat] /\ DOMAIN s = own
      /\ n[F] = mib.free_cluster_count /\ n[i] \in Nat \ {0} /\ n[F] \in Nat
      /\ Placed(own, n, s) /\ Chained(own, n, s, iNext, iPre)
  BY InvFacts, FitFacts DEF Owners
<1>2. CASE j = 0
  <2>1. iPre' = iPre /\ iNext' = iNext
    BY <1>2 DEF Grown
  <2>2. /\ iNext' \in [Links -> Links] /\ iPre'[0] = iPre[0]
        /\ iPre' \in [Links -> Links \cup {Header}] /\ \A c \in Cluster : iPre'[c] \in Links
    BY <2>1 DEF SfsInv, TypeOK
  <2>3. n[F] = n[F] - j /\ n[i] = n[i] + j /\ \A k \in 1..(n[F] - j) : s[F][k] = s[F][k + j]
    BY <1>1, <1>2
  <2>4. \A k \in 1..j : s[i][n[i] + k] = s[F][k]
    BY <1>2
  <2>5. Chained(own, n, s, iNext', iPre')
    BY <1>1, <2>1
  <2> QED BY <1>1, <2>2, <2>3, <2>4, <2>5
<1>3. CASE j # 0
  <2> DEFINE m == MovedCount(n, i, F, j)
             t == MovedPlace(n, s, i, F, j)
  <2>1. j \in 1..mib.free_cluster_count /\ j \in 0..n[F] /\ j \in 1..n[F]
    BY <1>1, <1>3
  <2>2. /\ Relinked(n, s, i, F, j, iNext, iPre, iNext', iPre')
        /\ iNext' \in [Links -> Links] /\ iPre'[0] = iPre[0]
        /\ iPre' \in [Links -> Links \cup {Header}] /\ \A c \in Cluster : iPre'[c] \in Links
    BY <2>1, GrownLinks
  <2> HIDE DEF F, own, n, s
  <2>3. Moved(own, n, s, i, F, j, m, t)
    <3> HIDE DEF m, t
    <3> QED BY <1>1, <2>1, MovedDef DEF m, t
  <2> HIDE DEF m, t
  <2>4. Placed(own, m, t)
    BY <1>1, <2>1, <2>3, MovedPlaced
  <2>5. Chained(own, m, t, iNext', iPre')
    BY <1>1, <2>1, <2>2, <2>3, MovedChained
  <2>6. /\ m[F] = n[F] - j /\ m[i] = n[i] + j
        /\ \A k \in 1..n[i] : t[i][k] = s[i][k]
        /\ \A k \in 1..j : t[i][n[i] + k] = s[F][k]
        /\ \A k \in 1..(n[F] - j) : t[F][k] = s[F][k + j]
        /\ \A q \in own \ {i, F} : m[q] = n[q] /\ t[q] = s[q]
    BY <2>3 DEF Moved
  <2> QED BY <2>2, <2>4, <2>5, <2>6 DEF F, own, n, s
<1> QED BY <1>2, <1>3

LEMMA TextFacts ==
  ASSUME NEW s \in Texts
  PROVE  /\ Len(s) \in Nat \ {0} /\ s \in [1..Len(s) -> Range(s)] /\ Range(s) \subseteq Byte
         /\ \A k \in 1..Len(s) : s[k] \in Byte
<1>1. s \in Seq(Range(s)) /\ s # <<>>
  BY SfsAssumption
<1>2. Len(s) \in Nat /\ DOMAIN s = 1..Len(s) /\ s \in [1..Len(s) -> Range(s)]
  BY <1>1, LenProperties
<1>3. Len(s) # 0
  BY <1>1, EmptySeq
<1>4. Range(s) \subseteq Byte
  BY Zenon DEF Byte
<1> QED BY <1>2, <1>3, <1>4

\* The chains after a write that adds j clusters and leaves u bytes of the last one unused.
Wrote(i, j, u) ==
  /\ Used' = Used /\ Owners' = Owners /\ j \in 0..mib.free_cluster_count
  /\ mib' = [mib EXCEPT !.iFree_cluster = Grown(i, j).iFree,
               !.free_cluster_count = @ - j]
  /\ fib' = [fib EXCEPT ![i].iTail = Grown(i, j).iTail, ![i].total_cluster = @ + j,
               ![i].tail_cluster_unuse_byte = u]
  /\ Total(i)' = Totals[i] + j /\ Total(FreeList)' = Totals[FreeList] - j
  /\ \A k \in 1..Totals[i] : ChainOf(i)'[k] = Chains[i][k]
  /\ \A k \in 1..j : ChainOf(i)'[Totals[i] + k] = Chains[FreeList][k]
  /\ \A k \in 1..(Totals[FreeList] - j) : ChainOf(FreeList)'[k] = Chains[FreeList][k + j]
  /\ \A q \in Used \ {i} : ChainOf(q)' = ChainOf(q) /\ Total(q)' = Total(q) /\ fib'[q] = fib[q]
  /\ Placed(Owners', Totals', Chains')
  /\ Chained(Owners', Totals', Chains', iNext', iPre')
  /\ iNext' \in [Links -> Links] /\ iPre'[0] = iPre[0]
  /\ iPre' \in [Links -> Links \cup {Header}] /\ \A c \in Cluster : iPre'[c] \in Links

LEMMA WrittenChains ==
  ASSUME SfsInv, NEW i \in Opened, NEW s \in Texts, Written(i, s),
         NEW j, j = Missing(i, Len(s)), NEW u,
         u = IF file[i].logic_position + Len(s) > file[i].length
             THEN (-(file[i].logic_position + Len(s))) % ClusterData
             ELSE fib[i].tail_cluster_unuse_byte
  PROVE  Wrote(i, j, u)
<1> DEFINE F == FreeList
           n == Totals
           new == Grown(i, j)
<1>1. /\ i \in Used /\ i \in Fibs /\ i \in Owners /\ F \in Owners /\ i # F /\ mib.fit
      /\ n[F] = mib.free_cluster_count /\ n[i] \in Nat \ {0} /\ n[F] \in Nat
      /\ n[i] = fib[i].total_cluster
  BY HandleFacts, InvFacts DEF Owners
<1>2. j \in Nat
  <2>1. PICK l \in Nat \ {0} : l = Len(s)
    BY TextFacts
  <2>2. j = Missing(i, l)
    BY <2>1
  <2>3. PICK end, u2 : /\ end = file[i].logic_position + l
                       /\ u2 = IF end > file[i].length THEN (-end) % ClusterData
                               ELSE fib[i].tail_cluster_unuse_byte
    OBVIOUS
  <2>4. WriteEnds(i, j, end, u2)
    BY <2>2, <2>3, WriteSizes
  <2> QED BY <2>4 DEF WriteEnds
<1>3. /\ j <= mib.free_cluster_count
      /\ iPre' = new.iPre /\ iNext' = new.iNext
      /\ mib' = [mib EXCEPT !.iFree_cluster = new.iFree, !.free_cluster_count = @ - j]
      /\ fib' = [fib EXCEPT ![i].iTail = new.iTail, ![i].total_cluster = @ + j,
                   ![i].tail_cluster_unuse_byte = u]
  BY DEF Written
<1>4. j \in 0..mib.free_cluster_count
  BY <1>1, <1>2, <1>3
<1>5. /\ iNext' \in [Links -> Links] /\ iPre'[0] = iPre[0]
      /\ iPre' \in [Links -> Links \cup {Header}] /\ \A c \in Cluster : iPre'[c] \in Links
  BY <1>1, <1>3, <1>4, GrownJoined
<1>6. PICK m, t :
        /\ Placed(Owners, m, t) /\ Chained(Owners, m, t, iNext', iPre')
        /\ m[F] = n[F] - j /\ m[i] = n[i] + j
        /\ \A k \in 1..n[i] : t[i][k] = Chains[i][k]
        /\ \A k \in 1..j : t[i][n[i] + k] = Chains[F][k]
        /\ \A k \in 1..(n[F] - j) : t[F][k] = Chains[F][k + j]
        /\ \A q \in Owners \ {i, F} : m[q] = n[q] /\ t[q] = Chains[q]
  BY <1>1, <1>3, <1>4, GrownJoined
<1>7. /\ mib \in [fit : BOOLEAN, free_FIB_count : 0..NumFib,
                  free_cluster_count : Links, iFree_cluster : Links]
      /\ fib \in [Fibs -> [fname : Names \cup {NoName}, iHead : Links, iTail : Links,
                           total_cluster : Links, tail_cluster_unuse_byte : 0..ClusterData]]
  BY DEF SfsInv, TypeOK
<1> HIDE DEF new
<1>8. /\ \A q \in Fibs \ {i} : fib'[q] = fib[q]
      /\ fib'[i].total_cluster = fib[i].total_cluster + j /\ fib'[i].iHead = fib[i].iHead
      /\ DOMAIN fib' = Fibs
  BY <1>1, <1>3, <1>7
<1>9. mib'.free_cluster_count = mib.free_cluster_count - j /\ mib'.iFree_cluster = new.iFree
  BY <1>3, <1>7
<1>10. Used' = Used
  <2>1. \A q \in Fibs \ {i} : q \in Used' <=> q \in Used
    BY <1>8 DEF Used
  <2>2. i \in Used'
    BY <1>1, <1>2, <1>8 DEF Used
  <2> QED BY <1>1, <2>1, <2>2 DEF Used
<1>11. Owners' = Owners
  BY <1>10 DEF Owners
<1>12. Total(F)' = m[F] /\ First(F)' = new.iFree
  BY <1>1, <1>6, <1>9 DEF Total, First
<1>13. Total(i)' = m[i] /\ First(i)' = fib[i].iHead /\ fib[i].iHead = Chains[i][1]
  BY <1>1, <1>6, <1>8, FitFacts DEF Total, First
<1>14. m[F] > 0 => new.iFree = t[F][1]
  <2> SUFFICES ASSUME m[F] > 0 PROVE new.iFree = t[F][1]
    OBVIOUS
  <2>1. 1 \in 1..(n[F] - j) /\ j < mib.free_cluster_count /\ t[F][1] = Chains[F][1 + j] /\ 1 + j = j + 1
    BY <1>1, <1>4, <1>6
  <2>2. CASE j = 0
    BY <1>1, <2>1, <2>2, FitFacts DEF new, Grown
  <2>3. CASE j # 0
    <3>1. j \in 1..mib.free_cluster_count
      BY <1>4, <2>3
    <3> QED BY <1>1, <2>1, <3>1, GrownFree DEF new
  <2> QED BY <2>2, <2>3
<1>15. ASSUME NEW q \in Used \ {i}
       PROVE  /\ q \in Owners \ {i, F} /\ q \in Fibs /\ Total(q)' = Total(q) /\ First(q)' = First(q)
              /\ m[q] = n[q] /\ t[q] = Chains[q] /\ n[q] = Total(q)
              /\ Chains[q] = ChainOf(q) /\ First(q) = Chains[q][1]
  <2>1. q \in Owners \ {i, F} /\ q \in Fibs /\ q # F
    BY InvFacts DEF Owners
  <2>2. fib'[q] = fib[q]
    BY <1>8, <2>1
  <2>3. Total(q)' = Total(q) /\ First(q)' = First(q)
    BY <2>1, <2>2 DEF Total, First
  <2>4. n[q] = Total(q) /\ Chains[q] = ChainOf(q) /\ n[q] \in Nat \ {0}
    BY <2>1, InvFacts
  <2>5. First(q) = Chains[q][1]
    BY <1>1, <2>1, <2>4, FitFacts
  <2> QED BY <1>6, <2>1, <2>3, <2>4, <2>5
<1>16. \A o \in Owners' : o = F \/ o = i \/ o \in Used \ {i}
  BY <1>11 DEF Owners
<1>17. \A o \in Owners' : Total(o)' = m[o] /\ (m[o] > 0 => First(o)' = t[o][1])
  <2>1. t[i][1] = Chains[i][1]
    BY <1>1, <1>6
  <2> HIDE DEF F
  <2> QED BY <1>12, <1>13, <1>14, <1>15, <1>16, <2>1
<1>18. /\ \A o \in Owners' : ChainOf(o)' = t[o]
       /\ Placed(Owners', Totals', Chains')
       /\ Chained(Owners', Totals', Chains', iNext', iPre')
  BY <1>6, <1>11, <1>17, ChainsAfter
<1>19. ChainOf(F)' = t[F] /\ ChainOf(i)' = t[i]
  BY <1>1, <1>11, <1>18
<1>20. \A q \in Used \ {i} : ChainOf(q)' = ChainOf(q) /\ Total(q)' = Total(q) /\ fib'[q] = fib[q]
  BY <1>8, <1>11, <1>15, <1>18
<1>21. Total(i)' = n[i] + j /\ Total(F)' = n[F] - j
  BY <1>6, <1>12, <1>13
<1>22. /\ \A k \in 1..n[i] : ChainOf(i)'[k] = Chains[i][k]
       /\ \A k \in 1..j : ChainOf(i)'[n[i] + k] = Chains[F][k]
       /\ \A k \in 1..(n[F] - j) : ChainOf(F)'[k] = Chains[F][k + j]
  BY <1>6, <1>19
<1>23. /\ mib' = [mib EXCEPT !.iFree_cluster = Grown(i, j).iFree, !.free_cluster_count = @ - j]
       /\ fib' = [fib EXCEPT ![i].iTail = Grown(i, j).iTail, ![i].total_cluster = @ + j,
                    ![i].tail_cluster_unuse_byte = u]
  BY <1>3 DEF new
<1> QED BY <1>4, <1>5, <1>10, <1>11, <1>18, <1>20, <1>21, <1>22, <1>23 DEF Wrote

\* No byte of s goes to byte b of cluster c, if they are put at from on.
Missed(all, from, s, c, b) ==
  \A k \in 1..Len(s) : LET p == from + k - 1 IN
    ~(all[(p \div ClusterData) + 1] = c /\ p % ClusterData = b)

\* Of the bytes of a cluster, a put changes those at the places of the bytes put.
LEMMA PutFacts ==
  ASSUME SfsInv, NEW all, NEW from \in Nat, NEW s \in Texts, Put(all, from, s)
  PROVE  /\ data' \in [Cluster -> [0..(ClusterData - 1) -> Byte]]
         /\ \A c \in Cluster, b \in 0..(ClusterData - 1) :
              Missed(all, from, s, c, b) => data'[c][b] = data[c][b]
<1> DEFINE Here(c, b) == {k \in 1..Len(s) : LET p == from + k - 1 IN
                            all[(p \div ClusterData) + 1] = c /\ p % ClusterData = b}
<1>1. data' = [c \in Cluster |-> [b \in 0..(ClusterData - 1) |->
                 IF Here(c, b) = {} THEN data[c][b] ELSE s[Min(Here(c, b))]]]
  BY Zenon DEF Put
<1>2. \A c, b : Here(c, b) # {} => Min(Here(c, b)) \in 1..Len(s)
  <2> SUFFICES ASSUME NEW c, NEW b, Here(c, b) # {} PROVE Min(Here(c, b)) \in 1..Len(s)
    OBVIOUS
  <2> DEFINE S == Here(c, b)
  <2>1. S \in SUBSET Nat /\ S # {} /\ S \subseteq 1..Len(s)
    BY TextFacts
  <2> HIDE DEF S
  <2>2. \E n \in S : \A k \in S : n <= k
    BY <2>1, LeastElement
  <2>3. Min(S) \in S
    BY <2>2, Zenon DEF Min
  <2>4. Min(S) \in 1..Len(s)
    BY <2>1, <2>3
  <2> QED BY <2>4 DEF S
<1>3. data \in [Cluster -> [0..(ClusterData - 1) -> Byte]]
  BY DEF SfsInv, TypeOK
<1>4. \A c, b : Missed(all, from, s, c, b) => Here(c, b) = {}
  BY DEF Missed
<1> HIDE DEF Here
<1>5. \A c \in Cluster, b \in 0..(ClusterData - 1) :
        data'[c][b] = IF Here(c, b) = {} THEN data[c][b] ELSE s[Min(Here(c, b))]
  BY <1>1
<1>6. \A c \in Cluster, b \in 0..(ClusterData - 1) :
        (IF Here(c, b) = {} THEN data[c][b] ELSE s[Min(Here(c, b))]) \in Byte
  BY <1>2, <1>3, TextFacts
<1>7. data' \in [Cluster -> [0..(ClusterData - 1) -> Byte]]
  BY <1>1, <1>6
<1> QED BY <1>4, <1>5, <1>7

\* A write puts its bytes within the clusters of its file.
LEMMA WrittenPlaces ==
  ASSUME SfsInv, NEW i \in Opened, NEW s \in Texts, NEW j, j = Missing(i, Len(s)),
         NEW k \in 1..Len(s), NEW p, p = file[i].logic_position + k - 1
  PROVE  /\ p \in Nat /\ p < file[i].logic_position + Len(s)
         /\ (p \div ClusterData) + 1 \in 1..(Total(i) + j)
         /\ p % ClusterData \in 0..(ClusterData - 1)
         /\ p = (p \div ClusterData) * ClusterData + (p % ClusterData)
<1>1. PICK l \in Nat \ {0} : l = Len(s)
  BY TextFacts
<1>2. PICK end, u : /\ end = file[i].logic_position + l
                    /\ u = IF end > file[i].length THEN (-end) % ClusterData
                           ELSE fib[i].tail_cluster_unuse_byte
  OBVIOUS
<1>3. j = Missing(i, l)
  BY <1>1
<1>4. WriteEnds(i, j, end, u)
  BY <1>2, <1>3, WriteSizes
<1>5. file[i].logic_position \in Nat /\ i \in Used
  BY HandleFacts
<1>6. p \in Nat /\ p < end /\ p \in Int
  BY <1>1, <1>2, <1>5
<1>7. ClusterData \in Nat \ {0} /\ Total(i) \in Nat
  BY <1>5, SizeFacts
<1> DEFINE q == Total(i) + j
<1>8. q \in Nat /\ end <= q * ClusterData /\ q * ClusterData \in Int /\ end \in Nat
  BY <1>4, <1>7, ProductInt DEF WriteEnds
<1> HIDE DEF q
<1>9. p < q * ClusterData
  BY <1>6, <1>8
<1>10. p \div ClusterData \in Nat /\ p \div ClusterData < q
  BY <1>6, <1>7, <1>8, <1>9, DivBound
<1>11. (p \div ClusterData) + 1 \in 1..q
  BY <1>8, <1>10
<1>12. p % ClusterData \in 0..(ClusterData - 1)
  BY <1>6, <1>7, DivType
<1>13. p = (p \div ClusterData) * ClusterData + (p % ClusterData)
  BY <1>6, <1>7, DivMod
<1> QED BY <1>1, <1>2, <1>6, <1>11, <1>12, <1>13 DEF q

\* The handle of a written file: its clusters are those of the chain.
LEMMA WrittenHandle ==
  ASSUME SfsInv, NEW i \in Opened, NEW s \in Texts, Written(i, s),
         NEW end, end = file[i].logic_position + Len(s)
  PROVE  /\ file' = [file EXCEPT ![i] =
                       [length |-> Max({file[i].length, end}), logic_position |-> end,
                        pIndex |-> ChainOf(i)']]
         /\ Put(ChainOf(i)', file[i].logic_position, s)
         /\ ChainOf(i)' \in [1..Total(i)' -> Cluster]
<1> DEFINE u == IF end > file[i].length THEN (-end) % ClusterData
                ELSE fib[i].tail_cluster_unuse_byte
           h == file[i]
<1>1. PICK j : j = Missing(i, Len(s))
  OBVIOUS
<1>2. /\ i \in Used /\ i \in Fibs /\ i \in Owners /\ i # FreeList /\ h.pIndex = ChainOf(i)
      /\ Totals[i] = Total(i) /\ Chains[i] = ChainOf(i) /\ Totals[i] \in Nat \ {0} /\ mib.fit
      /\ DOMAIN fib = Fibs
  BY HandleFacts, InvFacts DEF Owners, SfsInv, TypeOK
<1>3. /\ Owners' = Owners /\ Total(i)' = Totals[i] + j
      /\ fib' = [fib EXCEPT ![i].iTail = Grown(i, j).iTail, ![i].total_cluster = @ + j,
                   ![i].tail_cluster_unuse_byte = u]
      /\ j \in 0..mib.free_cluster_count
      /\ Placed(Owners', Totals', Chains')
      /\ \A k \in 1..Totals[i] : ChainOf(i)'[k] = Chains[i][k]
  <2> HIDE DEF u
  <2>1. u = IF file[i].logic_position + Len(s) > file[i].length
            THEN (-(file[i].logic_position + Len(s))) % ClusterData
            ELSE fib[i].tail_cluster_unuse_byte
    BY DEF u
  <2>2. Wrote(i, j, u)
    BY <1>1, <2>1, WrittenChains
  <2> QED BY <2>2 DEF Wrote
<1>4. ChainOf(i)' \in [1..Total(i)' -> Cluster]
  <2>1. Totals'[i] = Total(i)' /\ Chains'[i] = ChainOf(i)'
    BY <1>2, <1>3 DEF Totals, Chains
  <2> QED BY <1>2, <1>3, <2>1 DEF Placed
<1>5. First(i)' = fib[i].iHead
  <2> HIDE DEF u
  <2>1. fib'[i].iHead = fib[i].iHead
    BY <1>2, <1>3 DEF SfsInv, TypeOK
  <2> QED BY <1>2, <2>1 DEF First
<1>6. Len(h.pIndex) = Totals[i]
  <2>1. ChainOf(i) \in [1..Totals[i] -> Cluster]
    BY <1>2, FitFacts
  <2>2. ChainOf(i) \in Seq(Cluster)
    BY <1>2, <2>1, SeqDef
  <2>3. DOMAIN ChainOf(i) = 1..Totals[i] /\ DOMAIN ChainOf(i) = 1..Len(ChainOf(i))
        /\ Len(ChainOf(i)) \in Nat
    BY <2>1, <2>2, LenProperties
  <2> QED BY <1>2, <2>3
<1> DEFINE all == IF j = 0 THEN h.pIndex
                  ELSE Chain(Grown(i, j).iNext, fib[i].iHead, Len(h.pIndex) + j)
<1>7. iNext' = Grown(i, j).iNext
  BY <1>1 DEF Written
<1>8. all = ChainOf(i)'
  <2>1. CASE j = 0
    <3>1. Total(i)' = Totals[i] /\ ChainOf(i) \in [1..Totals[i] -> Cluster]
      BY <1>2, <1>3, <2>1, FitFacts
    <3>2. \A k \in 1..Totals[i] : ChainOf(i)'[k] = ChainOf(i)[k]
      BY <1>2, <1>3
    <3>3. /\ ChainOf(i)' = [k \in 1..Totals[i] |-> ChainOf(i)'[k]]
          /\ ChainOf(i) = [k \in 1..Totals[i] |-> ChainOf(i)[k]]
      BY <1>4, <3>1
    <3>4. ChainOf(i)' = ChainOf(i)
      BY <3>2, <3>3, Zenon
    <3> QED BY <1>2, <2>1, <3>4
  <2>2. CASE j # 0
    <3>1. ChainOf(i)' = Chain(iNext', First(i)', Total(i)')
      BY DEF ChainOf
    <3> QED BY <1>3, <1>5, <1>6, <1>7, <2>2, <3>1
  <2> QED BY <2>1, <2>2
<1>9. /\ file' = [file EXCEPT ![i] =
           [length |-> Max({file[i].length, end}), logic_position |-> end, pIndex |-> all]]
      /\ Put(all, file[i].logic_position, s)
  BY <1>1, Zenon DEF Written
<1> HIDE DEF all
<1> QED BY <1>4, <1>8, <1>9

\* What a write leaves of the bytes.
LEMMA WrittenBytes ==
  ASSUME SfsInv, NEW i \in Opened, NEW s \in Texts, Written(i, s)
  PROVE  /\ data' \in [Cluster -> [0..(ClusterData - 1) -> Byte]]
         /\ \A c \in Cluster : (\A k \in 1..Total(i)' : ChainOf(i)'[k] # c) => data'[c] = data[c]
         /\ \A c \in Cluster, b \in 0..(ClusterData - 1) :
              Missed(ChainOf(i)', file[i].logic_position, s, c, b) => data'[c][b] = data[c][b]
<1> DEFINE all == ChainOf(i)'
           from == file[i].logic_position
<1>1. PICK end : end = file[i].logic_position + Len(s)
  OBVIOUS
<1>2. Put(all, from, s)
  BY <1>1, WrittenHandle
<1>3. from \in Nat /\ i \in Used
  BY HandleFacts
<1> HIDE DEF all, from
<1>4. /\ data' \in [Cluster -> [0..(ClusterData - 1) -> Byte]]
      /\ \A c \in Cluster, b \in 0..(ClusterData - 1) :
           Missed(all, from, s, c, b) => data'[c][b] = data[c][b]
  BY <1>2, <1>3, PutFacts
<1>5. data \in [Cluster -> [0..(ClusterData - 1) -> Byte]]
  BY DEF SfsInv, TypeOK
<1>6. PICK j : j = Missing(i, Len(s))
  OBVIOUS
<1>7. Total(i)' = Total(i) + j
  <2>1. PICK u : u = IF file[i].logic_position + Len(s) > file[i].length
                     THEN (-(file[i].logic_position + Len(s))) % ClusterData
                     ELSE fib[i].tail_cluster_unuse_byte
    OBVIOUS
  <2>2. Total(i)' = Totals[i] + j
    <3>1. Wrote(i, j, u)
      BY <1>6, <2>1, WrittenChains
    <3> QED BY <3>1 DEF Wrote
  <2> QED BY <1>3, <2>2, InvFacts
<1>8. ASSUME NEW c \in Cluster, \A k \in 1..Total(i)' : all[k] # c
      PROVE  data'[c] = data[c]
  <2>1. \A k \in 1..Len(s) : LET p == from + k - 1 IN (p \div ClusterData) + 1 \in 1..Total(i)'
    BY <1>6, <1>7, WrittenPlaces DEF from
  <2>2. \A b : Missed(all, from, s, c, b)
    BY <1>8, <2>1 DEF Missed
  <2>3. \A b \in 0..(ClusterData - 1) : data'[c][b] = data[c][b]
    BY <1>4, <2>2
  <2>4. /\ data'[c] = [b \in 0..(ClusterData - 1) |-> data'[c][b]]
        /\ data[c] = [b \in 0..(ClusterData - 1) |-> data[c][b]]
    BY <1>4, <1>5
  <2> QED BY <2>3, <2>4, Zenon
<1> QED BY <1>4, <1>8, Zenon DEF all, from

\* Behind its new end, the file's tail holds nothing: a cluster that was free, or the old
\* tail, whose unused bytes are no more than before.
LEMMA WrittenTail ==
  ASSUME SfsInv, NEW i \in Opened, NEW s \in Texts, Written(i, s),
         NEW b \in 0..(ClusterData - 1),
         b >= ClusterData - fib'[i].tail_cluster_unuse_byte
  PROVE  data'[fib'[i].iTail][b] = Zero
<1> DEFINE from == file[i].logic_position
           d == ClusterData
<1>1. PICK j : j = Missing(i, Len(s))
  OBVIOUS
<1>2. PICK l \in Nat \ {0} : l = Len(s)
  BY TextFacts
<1>3. PICK end : end = from + l
  OBVIOUS
<1>4. PICK u : u = IF end > file[i].length THEN (-end) % d ELSE fib[i].tail_cluster_unuse_byte
  OBVIOUS
<1>5. WriteEnds(i, j, end, u)
  <2>1. j = Missing(i, l)
    BY <1>1, <1>2
  <2> QED BY <1>3, <1>4, <2>1, WriteSizes
<1>6. Wrote(i, j, u)
  BY <1>1, <1>2, <1>3, <1>4, WrittenChains
<1>7. /\ i \in Used /\ i \in Fibs /\ i # FreeList /\ i \in Owners /\ FreeList \in Owners /\ mib.fit
      /\ Totals[i] = Total(i) /\ Total(i) \in Nat \ {0}
      /\ Total(FreeList) = Totals[FreeList] /\ Totals[FreeList] = mib.free_cluster_count
      /\ Chains[FreeList] = ChainOf(FreeList) /\ Chains[i] = ChainOf(i)
      /\ ChainOf(FreeList) \in [1..Totals[FreeList] -> Cluster]
      /\ fib[i].iTail = Chains[i][Totals[i]]
  BY HandleFacts, InvFacts, FitFacts DEF Owners
<1> DEFINE T == Total(i) + j
           tail == ChainOf(i)'[T]
<1>8. /\ Owners' = Owners /\ Total(i)' = T /\ T \in Nat \ {0} /\ j \in Nat
      /\ j \in 0..mib.free_cluster_count
      /\ Placed(Owners', Totals', Chains') /\ Chains'[i] = ChainOf(i)' /\ Totals'[i] = T
  BY <1>5, <1>6, <1>7 DEF Wrote, WriteEnds, Chains, Totals
<1>9. fib'[i].tail_cluster_unuse_byte = u /\ fib'[i].iTail = Grown(i, j).iTail
  <2>1. /\ DOMAIN fib = Fibs
        /\ fib[i] \in [fname : Names \cup {NoName}, iHead : Links, iTail : Links,
                       total_cluster : Links, tail_cluster_unuse_byte : 0..ClusterData]
    BY <1>7 DEF SfsInv, TypeOK
  <2>2. fib' = [fib EXCEPT ![i].iTail = Grown(i, j).iTail, ![i].total_cluster = @ + j,
                    ![i].tail_cluster_unuse_byte = u]
    BY <1>6 DEF Wrote
  <2> QED BY <1>7, <2>1, <2>2
<1>10. j = 0 => Grown(i, j).iTail = fib[i].iTail
  BY DEF Grown
<1>11. j # 0 => Grown(i, j).iTail = Chains[FreeList][j]
  <2>1. j # 0 => j \in 1..mib.free_cluster_count
    BY <1>8
  <2> QED BY <1>7, <2>1, GrownFree
<1>12. fib'[i].iTail = tail
  <2>1. CASE j = 0
    <3>1. ChainOf(i)'[Totals[i]] = Chains[i][Totals[i]] /\ T = Totals[i]
      BY <1>6, <1>7, <2>1 DEF Wrote
    <3> QED BY <1>7, <1>9, <1>10, <2>1, <3>1
  <2>2. CASE j # 0
    <3>1. ChainOf(i)'[Totals[i] + j] = Chains[FreeList][j] /\ T = Totals[i] + j
      BY <1>6, <1>7, <1>8, <2>2 DEF Wrote
    <3> QED BY <1>9, <1>11, <2>2, <3>1
  <2> QED BY <2>1, <2>2
<1>13. tail \in Cluster
  <2>1. Chains'[i] \in [1..T -> Cluster]
    BY <1>7, <1>8 DEF Placed
  <2>2. T \in 1..T
    BY <1>8
  <2> HIDE DEF T
  <2> QED BY <1>8, <2>1, <2>2
<1>14. d \in Nat \ {0} /\ from \in Nat /\ b \in Int /\ b < d /\ u \in Int /\ b >= d - u
       /\ end \in Nat
  BY <1>5, <1>7, <1>9, SizeFacts, HandleFacts DEF WriteEnds
<1>15. data[tail][b] = Zero
  <2>1. CASE j = 0
    <3>1. u <= fib[i].tail_cluster_unuse_byte /\ fib[i].tail_cluster_unuse_byte \in Int
      BY <1>5, <1>7, <2>1, SizeFacts DEF WriteEnds
    <3>2. b >= ClusterData - fib[i].tail_cluster_unuse_byte
      BY <1>14, <3>1
    <3>3. data[fib[i].iTail][b] = Zero
      BY <1>7, <3>2 DEF SfsInv, Erased
    <3> HIDE DEF tail
    <3> QED BY <1>9, <1>10, <1>12, <2>1, <3>3
  <2>2. CASE j # 0
    <3>1. j \in 1..Total(FreeList)
      BY <1>7, <1>8, <2>2
    <3>2. data[ChainOf(FreeList)[j]] = EmptyCluster
      BY <3>1 DEF SfsInv, Erased
    <3>3. tail = ChainOf(FreeList)[j]
      <4> HIDE DEF tail
      <4> QED BY <1>7, <1>9, <1>11, <1>12, <2>2
    <3> QED BY <3>2, <3>3 DEF EmptyCluster
  <2> QED BY <2>1, <2>2
\* The bytes that are put lie before the end, and byte b of the tail does not.
<1>16. Missed(ChainOf(i)', from, s, tail, b)
  <2> SUFFICES ASSUME NEW k \in 1..Len(s), NEW p, p = from + k - 1,
                      ChainOf(i)'[(p \div d) + 1] = tail, p % d = b
               PROVE  FALSE
    BY DEF Missed
  <2>1. /\ p \in Nat /\ p < end
        /\ (p \div d) + 1 \in 1..T
        /\ p = (p \div d) * d + (p % d)
    BY <1>1, <1>2, <1>3, WrittenPlaces
  <2> DEFINE q == p \div d
  <2>2. q \in Int
    BY <1>14, <2>1, DivType
  <2>3. q + 1 = T
    <3>1. T \in 1..Totals'[i] /\ q + 1 \in 1..Totals'[i]
      BY <1>8, <2>1
    <3>2. Chains'[i][q + 1] = Chains'[i][T]
      BY <1>8
    <3> HIDE DEF q, T
    <3> QED BY <1>7, <1>8, <3>1, <3>2 DEF Placed
  <2>4. p = q * d + b
    BY <2>1
  <2> HIDE DEF q, T, d, from
  <2>5. (q + 1) * d = q * d + d /\ q * d \in Int
    BY <1>14, <2>2, ProductStep, ProductInt
  <2>6. Max({file[i].length, end}) = T * d - u /\ end <= Max({file[i].length, end})
        /\ Max({file[i].length, end}) \in Nat
    BY <1>5 DEF WriteEnds, T, d
  <2>7. T * d = q * d + d
    BY <2>3, <2>5
  <2>8. T * d - u >= end
    BY <2>6
  <2> QED BY <1>14, <2>1, <2>4, <2>5, <2>7, <2>8
<1> HIDE DEF tail
<1>17. data'[tail][b] = data[tail][b]
  BY <1>13, <1>16, WrittenBytes
<1> QED BY <1>12, <1>15, <1>17

LEMMA WriteStep ==
  ASSUME SfsInv, NEW i \in Opened, NEW s \in Texts, Written(i, s)
  PROVE  SfsInv'
<1> DEFINE from == file[i].logic_position
           d == ClusterData
           F == FreeList
<1>1. PICK j : j = Missing(i, Len(s))
  OBVIOUS
<1>2. PICK l \in Nat \ {0} : l = Len(s)
  BY TextFacts
<1>3. PICK end : end = from + l
  OBVIOUS
<1>4. PICK u : u = IF end > file[i].length THEN (-end) % d ELSE fib[i].tail_cluster_unuse_byte
  OBVIOUS
<1>5. WriteEnds(i, j, end, u)
  <2>1. j = Missing(i, l)
    BY <1>1, <1>2
  <2> QED BY <1>3, <1>4, <2>1, WriteSizes
<1>6. Wrote(i, j, u)
  BY <1>1, <1>2, <1>3, <1>4, WrittenChains
<1>7. /\ i \in Used /\ i \in Fibs /\ i # F /\ i \in Owners /\ F \in Owners /\ mib.fit
      /\ Totals[i] = Total(i) /\ Total(i) \in Nat \ {0} /\ Total(i) = fib[i].total_cluster
      /\ Total(F) = Totals[F] /\ Totals[F] = mib.free_cluster_count /\ Totals[F] \in Nat
      /\ Chains[F] = ChainOf(F) /\ Chains[i] = ChainOf(i)
      /\ ChainOf(F) \in [1..Totals[F] -> Cluster]
      /\ Used \in SUBSET Fibs /\ Opened \subseteq Used
  BY HandleFacts, InvFacts, FitFacts DEF Owners, SfsInv, HandlesInv
<1>8. /\ mib \in [fit : BOOLEAN, free_FIB_count : 0..NumFib,
                  free_cluster_count : Links, iFree_cluster : Links]
      /\ fib \in [Fibs -> [fname : Names \cup {NoName}, iHead : Links, iTail : Links,
                           total_cluster : Links, tail_cluster_unuse_byte : 0..ClusterData]]
      /\ file \in [Fibs -> Handle \cup {None}]
  BY DEF SfsInv, TypeOK
<1>9. /\ mib' = [mib EXCEPT !.iFree_cluster = Grown(i, j).iFree, !.free_cluster_count = @ - j]
      /\ fib' = [fib EXCEPT ![i].iTail = Grown(i, j).iTail, ![i].total_cluster = @ + j,
                   ![i].tail_cluster_unuse_byte = u]
      /\ Used' = Used /\ Owners' = Owners /\ j \in 0..mib.free_cluster_count
      /\ Total(i)' = Total(i) + j /\ Total(F)' = Totals[F] - j
      /\ \A k \in 1..(Totals[F] - j) : ChainOf(F)'[k] = Chains[F][k + j]
      /\ \A k \in 1..Totals[i] : ChainOf(i)'[k] = Chains[i][k]
      /\ \A k \in 1..j : ChainOf(i)'[Totals[i] + k] = Chains[F][k]
      /\ \A q \in Used \ {i} : ChainOf(q)' = ChainOf(q) /\ Total(q)' = Total(q) /\ fib'[q] = fib[q]
      /\ Placed(Owners', Totals', Chains')
      /\ Chained(Owners', Totals', Chains', iNext', iPre')
  BY <1>6, <1>7 DEF Wrote
<1>10. /\ iNext' \in [Links -> Links]
       /\ iPre' \in [Links -> Links \cup {Header}] /\ \A c \in Cluster : iPre'[c] \in Links
  BY <1>6 DEF Wrote
\* The new tail and the clusters that stay free.
<1>11. /\ j = 0 => Grown(i, j).iTail = fib[i].iTail /\ Grown(i, j).iFree = mib.iFree_cluster
       /\ j # 0 => Grown(i, j).iTail = Chains[F][j]
       /\ j # 0 /\ j = mib.free_cluster_count => Grown(i, j).iFree = 0
       /\ j # 0 /\ j < mib.free_cluster_count => Grown(i, j).iFree \in Cluster
  <2>1. j = 0 => Grown(i, j).iTail = fib[i].iTail /\ Grown(i, j).iFree = mib.iFree_cluster
    BY DEF Grown
  <2>2. j # 0 => j \in 1..mib.free_cluster_count
    BY <1>9
  <2>3. \A k \in 1..mib.free_cluster_count :
          /\ Grown(i, k).iTail = Chains[F][k]
          /\ k = mib.free_cluster_count => Grown(i, k).iFree = 0
          /\ k < mib.free_cluster_count => Grown(i, k).iFree \in Cluster
    BY <1>7, GrownFree
  <2> QED BY <2>1, <2>2, <2>3
<1>12. Grown(i, j).iTail \in Links /\ Grown(i, j).iFree \in Links
  <2>1. Grown(i, j).iTail \in Links
    <3>1. CASE j = 0
      BY <1>7, <1>8, <1>11, <3>1
    <3>2. CASE j # 0
      <4>1. Chains[F][j] \in Cluster
        BY <1>7, <1>9, <3>2
      <4> QED BY <1>11, <3>2, <4>1 DEF Cluster, Links
    <3> QED BY <3>1, <3>2
  <2>2. Grown(i, j).iFree \in Links
    <3>1. CASE j = 0
      BY <1>8, <1>11, <3>1
    <3>2. CASE j # 0
      <4>1. j = mib.free_cluster_count \/ j < mib.free_cluster_count
        BY <1>7, <1>9
      <4>2. 0 \in Links /\ \A c \in Cluster : c \in Links
        BY SfsAssumption DEF Cluster, Links
      <4> QED BY <1>11, <3>2, <4>1, <4>2
    <3> QED BY <3>1, <3>2
  <2> QED BY <2>1, <2>2
<1>13. /\ Total(i) + j \in Links /\ mib.free_cluster_count - j \in Links
       /\ Totals'[i] = Total(i) + j /\ Totals'[F] = Totals[F] - j
       /\ Chains'[i] = ChainOf(i)' /\ Chains'[F] = ChainOf(F)'
  <2>1. Totals'[i] = Total(i)' /\ Totals'[F] = Total(F)' /\ Chains'[i] = ChainOf(i)'
        /\ Chains'[F] = ChainOf(F)'
    BY <1>7, <1>9 DEF Totals, Chains
  <2>2. Totals'[i] <= NumCluster /\ Totals'[F] <= NumCluster
    BY <1>7, <1>9, PlacedBound
  <2> QED BY <1>7, <1>9, <2>1, <2>2, SfsAssumption DEF Links
<1>14. /\ mib'.fit /\ mib'.free_FIB_count = mib.free_FIB_count
       /\ mib'.free_cluster_count = mib.free_cluster_count - j
       /\ mib'.iFree_cluster = Grown(i, j).iFree
       /\ mib' \in [fit : BOOLEAN, free_FIB_count : 0..NumFib,
                    free_cluster_count : Links, iFree_cluster : Links]
  BY <1>7, <1>8, <1>9, <1>12, <1>13
<1>15. u \in 0..d
  BY <1>5 DEF WriteEnds
<1>16. /\ fib'[i].fname = fib[i].fname /\ fib'[i].iTail = Grown(i, j).iTail
       /\ fib'[i].total_cluster = Total(i) + j /\ fib'[i].tail_cluster_unuse_byte = u
       /\ fib' \in [Fibs -> [fname : Names \cup {NoName}, iHead : Links, iTail : Links,
                             total_cluster : Links, tail_cluster_unuse_byte : 0..ClusterData]]
  <2> DEFINE R == [fname : Names \cup {NoName}, iHead : Links, iTail : Links,
                   total_cluster : Links, tail_cluster_unuse_byte : 0..ClusterData]
             r == [fib[i] EXCEPT !.iTail = Grown(i, j).iTail, !.total_cluster = @ + j,
                     !.tail_cluster_unuse_byte = u]
  <2>1. fib[i] \in R
    BY <1>7, <1>8
  <2>2. fib[i].total_cluster + j \in Links
    BY <1>7, <1>13
  <2>3. r \in R /\ r.fname = fib[i].fname /\ r.iTail = Grown(i, j).iTail
        /\ r.total_cluster = fib[i].total_cluster + j /\ r.tail_cluster_unuse_byte = u
    BY <1>12, <1>15, <2>1, <2>2
  <2>4. fib'[i] = r /\ fib' = [q \in Fibs |-> fib'[q]] /\ \A q \in Fibs \ {i} : fib'[q] = fib[q]
    <3> DEFINE tail == Grown(i, j).iTail
    <3>1. DOMAIN fib = Fibs
      BY <1>8
    <3>2. fib' = [fib EXCEPT ![i].iTail = tail, ![i].total_cluster = @ + j,
                    ![i].tail_cluster_unuse_byte = u]
      BY <1>9
    <3> HIDE DEF tail
    <3>3. fib' = [q \in Fibs |-> fib'[q]] /\ \A q \in Fibs \ {i} : fib'[q] = fib[q]
      BY <1>7, <3>1, <3>2
    <3>4. fib'[i] = r
      BY <1>7, <2>1, <3>1, <3>2 DEF tail
    <3> QED BY <3>3, <3>4
  <2> HIDE DEF r, R
  <2>5. fib' \in [Fibs -> R]
    <3>1. \A q \in Fibs : fib'[q] \in R
      BY <1>8, <2>3, <2>4 DEF R
    <3> QED BY <2>4, <3>1
  <2> QED BY <1>7, <2>3, <2>4, <2>5 DEF R
<1>17. /\ data' \in [Cluster -> [0..(d - 1) -> Byte]]
       /\ \A c \in Cluster : (\A k \in 1..Total(i)' : ChainOf(i)'[k] # c) => data'[c] = data[c]
  BY WrittenBytes
<1>18. /\ file' = [file EXCEPT ![i] =
                     [length |-> Max({file[i].length, end}), logic_position |-> end,
                      pIndex |-> ChainOf(i)']]
       /\ ChainOf(i)' \in [1..Total(i)' -> Cluster]
  BY <1>2, <1>3, WrittenHandle
<1> DEFINE h == [length |-> Max({file[i].length, end}), logic_position |-> end,
                 pIndex |-> ChainOf(i)']
<1>19. /\ h \in Handle /\ h.length = Max({file[i].length, end}) /\ h.logic_position = end
       /\ h.pIndex = ChainOf(i)'
  <2>1. ChainOf(i)' \in Seq(Cluster)
    <3>1. PICK c, n : c = ChainOf(i)' /\ n = Total(i)'
      OBVIOUS
    <3>2. n \in Nat /\ c \in [1..n -> Cluster]
      BY <1>7, <1>9, <1>18, <3>1
    <3> QED BY <3>1, <3>2, SeqDef
  <2>2. Max({file[i].length, end}) \in Nat /\ end \in Nat
    BY <1>5 DEF WriteEnds
  <2> QED BY <2>1, <2>2 DEF Handle
<1>20. file' = [file EXCEPT ![i] = h]
  BY <1>18
<1> HIDE DEF h
<1>21. /\ file' \in [Fibs -> Handle \cup {None}] /\ file'[i] = h
       /\ \A k \in Opened' : k = i \/ (k \in Opened \ {i} /\ file'[k] = file[k])
  BY <1>7, <1>8, <1>19, <1>20 DEF Opened
<1>22. Size(i)' = h.length /\ h.logic_position \in 0..h.length
  <2>1. Size(i)' = (fib'[i].total_cluster - 1) * d + (d - fib'[i].tail_cluster_unuse_byte)
    BY DEF Size
  <2> DEFINE T == Total(i) + j
  <2>2. T \in Nat \ {0} /\ d \in Nat \ {0} /\ u \in Int
    BY <1>5, <1>7, <1>15, SfsAssumption DEF WriteEnds
  <2>3. fib'[i].total_cluster = T /\ fib'[i].tail_cluster_unuse_byte = u
    BY <1>16
  <2>4. h.length = T * d - u /\ h.logic_position \in 0..h.length
    BY <1>5, <1>19 DEF WriteEnds
  <2> HIDE DEF T, d
  <2>5. (T - 1) * d = T * d - d /\ T * d \in Int
    BY <2>2, ProductStep, ProductInt
  <2> QED BY <2>1, <2>2, <2>3, <2>4, <2>5 DEF d
<1>23. TypeOK'
  <2>1. ASSUME NEW k \in Opened \ {i} PROVE Size(k)' = Size(k)
    BY <1>7, <1>9 DEF Size
  <2>2. \A k \in Opened' : file'[k].length = Size(k)' /\ file'[k].logic_position \in 0..file'[k].length
    <3>1. \A k \in Opened : file[k].length = Size(k) /\ file[k].logic_position \in 0..file[k].length
      BY DEF SfsInv, TypeOK
    <3> QED BY <1>21, <1>22, <2>1, <3>1
  <2> QED BY <1>10, <1>14, <1>16, <1>17, <1>21, <2>2 DEF TypeOK
<1>24. KeptInv'
  <2>1. fib'[i].iTail = ChainOf(i)'[Total(i)']
    <3>1. CASE j = 0
      <4>1. ChainOf(i)'[Totals[i]] = Chains[i][Totals[i]]
        BY <1>7, <1>9
      <4>2. fib[i].iTail = Chains[i][Totals[i]]
        BY <1>7, FitFacts
      <4> QED BY <1>7, <1>9, <1>11, <1>16, <3>1, <4>1, <4>2
    <3>2. CASE j # 0
      <4>1. ChainOf(i)'[Totals[i] + j] = Chains[F][j]
        BY <1>9, <3>2
      <4> QED BY <1>7, <1>9, <1>11, <1>16, <3>2, <4>1
    <3> QED BY <3>1, <3>2
  <2>2. ASSUME NEW k \in Used \ {i} PROVE fib'[k].iTail = ChainOf(k)'[Total(k)']
    <3>1. fib[k].iTail = ChainOf(k)[Total(k)]
      BY <1>7 DEF SfsInv, KeptInv
    <3> QED BY <1>9, <3>1
  <2>3. mib'.free_cluster_count = 0 => mib'.iFree_cluster = 0
    <3> SUFFICES ASSUME mib'.free_cluster_count = 0 PROVE mib'.iFree_cluster = 0
      OBVIOUS
    <3>1. j = mib.free_cluster_count
      BY <1>7, <1>9, <1>14
    <3>2. mib.free_cluster_count = 0 => mib.iFree_cluster = 0
      BY <1>7 DEF SfsInv, KeptInv
    <3> QED BY <1>11, <1>14, <3>1, <3>2
  <2>4. mib'.free_FIB_count + Cardinality(Used') = NumFib
    BY <1>7, <1>9, <1>14 DEF SfsInv, KeptInv
  <2> QED BY <1>9, <2>1, <2>2, <2>3, <2>4 DEF KeptInv
<1>25. Erased'
  <2>1. ASSUME NEW k \in 1..Total(F)' PROVE data'[ChainOf(F)'[k]] = EmptyCluster
    <3>1. k \in 1..(Totals[F] - j) /\ k \in 1..Totals'[F] /\ k + j \in 1..Totals[F]
      BY <1>7, <1>9, <1>13
    <3>2. ChainOf(F)'[k] = ChainOf(F)[k + j] /\ ChainOf(F)'[k] \in Cluster
      BY <1>7, <1>9, <3>1
    <3>3. data[ChainOf(F)'[k]] = EmptyCluster
      BY <1>7, <3>1, <3>2 DEF SfsInv, Erased
    <3>4. \A q \in 1..Total(i)' : ChainOf(i)'[q] # ChainOf(F)'[k]
      <4>1. \A q \in 1..Totals'[i] : Chains'[i][q] # Chains'[F][k]
        <5>1. i \in Owners' /\ F \in Owners' /\ i # F
          BY <1>7, <1>9
        <5> HIDE DEF F
        <5> QED BY <1>9, <3>1, <5>1 DEF Placed
      <4> QED BY <1>9, <1>13, <4>1
    <3> QED BY <1>17, <3>2, <3>3, <3>4
  <2>2. ASSUME NEW q \in Used \ {i}, NEW b \in 0..(d - 1),
               b >= d - fib'[q].tail_cluster_unuse_byte
        PROVE  data'[fib'[q].iTail][b] = Zero
    <3>1. /\ fib'[q] = fib[q] /\ q \in Owners /\ Totals[q] \in Nat \ {0} /\ Totals[q] = Total(q)
          /\ Chains[q] = ChainOf(q) /\ fib[q].iTail = Chains[q][Totals[q]]
          /\ Chains[q] \in [1..Totals[q] -> Cluster]
      <4>1. fib'[q] = fib[q] /\ q \in Owners
        BY <1>9 DEF Owners
      <4>2. Totals[q] \in Nat \ {0} /\ Totals[q] = Total(q) /\ Chains[q] = ChainOf(q)
        BY <4>1, InvFacts
      <4>3. fib[q].iTail = Chains[q][Totals[q]] /\ ChainOf(q) \in [1..Totals[q] -> Cluster]
        BY <1>7, <4>1, FitFacts
      <4> QED BY <4>1, <4>2, <4>3
    <3>2. data[fib[q].iTail][b] = Zero
      BY <2>2, <3>1 DEF SfsInv, Erased
    <3>3. Totals'[q] = Totals[q] /\ Chains'[q] = Chains[q]
      BY <1>9, <3>1 DEF Totals, Chains
    <3>4. \A k \in 1..Total(i)' : ChainOf(i)'[k] # fib[q].iTail
      <4>1. \A k \in 1..Totals'[i] : Chains'[i][k] # Chains'[q][Totals[q]]
        <5>1. Totals[q] \in 1..Totals'[q] /\ q \in Owners' /\ i \in Owners' /\ q # i
          BY <1>7, <1>9, <3>1, <3>3
        <5> QED BY <1>9, <5>1 DEF Placed
      <4> QED BY <1>9, <1>13, <3>1, <3>3, <4>1
    <3>5. fib[q].iTail \in Cluster
      BY <3>1
    <3> QED BY <1>17, <3>1, <3>2, <3>4, <3>5
  <2>3. \A b \in 0..(d - 1) :
          b >= d - fib'[i].tail_cluster_unuse_byte => data'[fib'[i].iTail][b] = Zero
    BY WrittenTail
  <2> QED BY <1>9, <2>1, <2>2, <2>3 DEF Erased
<1>26. RawInv'
  BY <1>14 DEF RawInv
<1>27. HandlesInv'
  <2>1. \A k \in Opened : k \in Used /\ file[k].pIndex = ChainOf(k)
    BY DEF SfsInv, HandlesInv
  <2> QED BY <1>7, <1>9, <1>19, <1>21, <2>1 DEF HandlesInv
<1>28. NamesInv'
  <2>1. \A q \in Used : fib'[q].fname = fib[q].fname
    BY <1>9, <1>16
  <2>2. Used' = Used
    BY <1>9
  <2>3. \A q \in Used : fib[q].fname \in Names
    BY DEF SfsInv, NamesInv
  <2>4. \A q, k \in Used : fib[q].fname = fib[k].fname => q = k
    BY DEF SfsInv, NamesInv
  <2> QED BY <2>1, <2>2, <2>3, <2>4 DEF NamesInv
<1> QED BY <1>23, <1>24, <1>25, <1>26, <1>27, <1>28 DEF SfsInv

LEMMA NextStep ==
  ASSUME SfsInv, [Next]_vars
  PROVE  SfsInv'
<1>1. CASE Format
  BY <1>1, FormatStep
<1>2. CASE PowerCycle
  BY <1>2, PowerStep
<1>3. ASSUME NEW f \in Names, Create(f) PROVE SfsInv'
  BY <1>3, CreateCases, CreateStep, NothingKept
<1>4. ASSUME NEW f \in Names, Delete(f) PROVE SfsInv'
  BY <1>4, DeleteCases, DeleteStep, NothingKept
<1>5. ASSUME NEW f \in Names, Open(f) PROVE SfsInv'
  BY <1>5, OpenStep
<1>6. ASSUME NEW i \in Fibs, Close(i) PROVE SfsInv'
  BY <1>6, CloseStep
<1>7. ASSUME NEW i \in Fibs, NEW n \in Lengths, Read(i, n) PROVE SfsInv'
  BY <1>7, ReadStep
<1>8. ASSUME NEW i \in Fibs, NEW s \in Texts, Write(i, s) PROVE SfsInv'
  BY <1>8, WriteCases, WriteStep, NothingKept
<1>9. ASSUME NEW i \in Fibs, NEW p \in Positions, Seek(i, p) PROVE SfsInv'
  BY <1>9, SeekStep
<1>10. CASE UNCHANGED vars
  BY <1>10, NothingKept DEF vars
<1> QED BY <1>1, <1>2, <1>3, <1>4, <1>5, <1>6, <1>7, <1>8, <1>9, <1>10 DEF Next

LEMMA InvHolds == Spec => []SfsInv
<1>1. Init => SfsInv
  BY InitHolds
<1>2. SfsInv /\ [Next]_vars => SfsInv'
  BY NextStep
<1> QED BY <1>1, <1>2, PTL DEF Spec

----------------------------------------------------------------------------
\* Theorems

\* Every state is of its type: links stay within the disk, counts within their limits, and
\* the length that a handle holds is that of its file block.
THEOREM TypeCorrect == Spec => []TypeOK
<1>1. SfsInv => TypeOK
  BY DEF SfsInv
<1> QED BY <1>1, InvHolds, PTL

LEMMA KeptIsKept ==
  ASSUME SfsInv
  PROVE  ClustersKept
<1> SUFFICES ASSUME mib.fit
             PROVE  /\ \A o \in Owners : Linked(o)
                    /\ \A i \in Used : ChainOf(i)[Total(i)] = fib[i].iTail
                    /\ \A c \in Cluster : \E o \in Owners : \E k \in 1..Total(o) : ChainOf(o)[k] = c
                    /\ \A o, p \in Owners : \A k \in 1..Total(o), l \in 1..Total(p) :
                         ChainOf(o)[k] = ChainOf(p)[l] => o = p /\ k = l
                    /\ mib.free_FIB_count + Cardinality(Used) = NumFib
  BY DEF ClustersKept
<1>1. \A o \in Owners : Totals[o] = Total(o) /\ Chains[o] = ChainOf(o) /\ Total(o) \in Nat
  BY InvFacts DEF Owners
<1>2. Placed(Owners, Totals, Chains) /\ Chained(Owners, Totals, Chains, iNext, iPre)
  BY FitFacts
<1>3. ASSUME NEW o \in Owners PROVE Linked(o)
  <2>1. \A k \in 1..Total(o) : ChainOf(o)[k] # 0
    BY <1>1, FitFacts DEF Cluster
  <2>2. /\ \A k \in 1..(Total(o) - 1) : iPre[ChainOf(o)[k + 1]] = ChainOf(o)[k]
        /\ Total(o) > 0 => iNext[ChainOf(o)[Total(o)]] = 0
    BY <1>1, <1>2 DEF Chained
  <2>3. Total(o) = 0 => First(o) = 0
    <3>1. o \in Used => Total(o) # 0
      BY InvFacts
    <3>2. Total(FreeList) = 0 => First(FreeList) = 0
      BY InvFacts, FitFacts DEF First
    <3> QED BY <3>1, <3>2 DEF Owners
  <2>4. Total(o) # 0 => Total(o) > 0
    BY <1>1
  <2> QED BY <2>1, <2>2, <2>3, <2>4 DEF Linked
<1>4. \A i \in Used : ChainOf(i)[Total(i)] = fib[i].iTail
  BY DEF SfsInv, KeptInv
<1>5. ASSUME NEW c \in Cluster
      PROVE  \E o \in Owners : \E k \in 1..Total(o) : ChainOf(o)[k] = c
  <2>1. PICK o \in Owners : \E k \in 1..Totals[o] : Chains[o][k] = c
    BY <1>2 DEF Placed
  <2> QED BY <1>1, <2>1
<1>6. \A o, p \in Owners : \A k \in 1..Total(o), l \in 1..Total(p) :
        ChainOf(o)[k] = ChainOf(p)[l] => o = p /\ k = l
  BY <1>1, <1>2 DEF Placed
<1>7. mib.free_FIB_count + Cardinality(Used) = NumFib
  BY DEF SfsInv, KeptInv
<1> QED BY <1>3, <1>4, <1>5, <1>6, <1>7

\* Create, write and delete relink the chains so that each cluster stays in one of them,
\* linked both ways, and the counts of the memory header and of the file blocks are their
\* lengths.
THEOREM ClustersKeptCorrect == Spec => []ClustersKept
<1>1. SfsInv => ClustersKept
  BY KeptIsKept
<1> QED BY <1>1, InvHolds, PTL

\* Free clusters, and the unused bytes of the last cluster of a file, are zero.
THEOREM ErasedCorrect == Spec => []Erased
<1>1. SfsInv => Erased
  BY DEF SfsInv
<1> QED BY <1>1, InvHolds, PTL

\* A step that writes the link of cluster 0 under the memory header.
HeaderStep ==
  iPre'[0] \notin {iPre[0], Header} =>
    \/ ~mib'.fit
    \/ mib'.free_FIB_count < mib.free_FIB_count /\ mib'.free_cluster_count = 0
    \/ mib'.free_FIB_count > mib.free_FIB_count /\ mib.free_cluster_count = 0

LEMMA HeaderHolds ==
  ASSUME SfsInv, [Next]_vars
  PROVE  HeaderStep
<1>1. CASE UNCHANGED disk
  BY <1>1 DEF disk, HeaderStep
<1>2. CASE Format
  <2>1. iPre'[0] = Header
    BY <1>2, SfsAssumption DEF Format, Links
  <2> QED BY <2>1 DEF HeaderStep
<1>3. CASE PowerCycle
  BY <1>3 DEF PowerCycle, RawDisk, HeaderStep
<1>4. ASSUME NEW f \in Names, Created(f) PROVE HeaderStep
  <2> DEFINE head == mib.iFree_cluster
             rest == iNext[head]
  <2>1. /\ mib.free_cluster_count \in Nat \ {0} /\ rest \in Links
        /\ mib.free_cluster_count > 1 => rest \in Cluster
    BY <1>4, CreatedFacts
  <2>2. DOMAIN iPre = Links /\ 0 \notin Cluster /\ mib.free_FIB_count \in 0..NumFib
        /\ mib \in [fit : BOOLEAN, free_FIB_count : 0..NumFib,
                    free_cluster_count : Links, iFree_cluster : Links]
    BY DEF SfsInv, TypeOK, Cluster
  <2> HIDE DEF rest
  <2>3. /\ iPre' = [iPre EXCEPT ![rest] = 0]
        /\ mib' = [mib EXCEPT !.free_FIB_count = @ - 1,
                     !.iFree_cluster = rest, !.free_cluster_count = @ - 1]
    BY <1>4 DEF Created, rest
  <2>4. rest # 0 => iPre'[0] = iPre[0]
    BY <2>2, <2>3
  <2>5. rest = 0 => mib.free_cluster_count = 1
    BY <2>1, <2>2
  <2>6. /\ mib'.free_FIB_count = mib.free_FIB_count - 1
        /\ mib'.free_cluster_count = mib.free_cluster_count - 1
    BY <2>2, <2>3
  <2>7. mib.free_FIB_count \in Int
    BY <2>2, SfsAssumption
  <2> QED BY <2>4, <2>5, <2>6, <2>7 DEF HeaderStep
<1>5. ASSUME NEW i, Deleted(i) PROVE HeaderStep
  <2> DEFINE first == mib.iFree_cluster
  <2>1. mib.free_cluster_count = 0 <=> first = 0
    BY <1>5, FitFacts DEF Deleted
  <2>2. DOMAIN iPre = Links /\ mib.free_FIB_count \in 0..NumFib
        /\ mib \in [fit : BOOLEAN, free_FIB_count : 0..NumFib,
                    free_cluster_count : Links, iFree_cluster : Links]
    BY DEF SfsInv, TypeOK
  <2>3. /\ iPre' = [iPre EXCEPT ![first] = fib[i].iTail]
        /\ mib' = [mib EXCEPT !.iFree_cluster = fib[i].iHead, !.free_FIB_count = @ + 1,
                     !.free_cluster_count = @ + fib[i].total_cluster]
    BY <1>5 DEF Deleted, Free
  <2>4. first # 0 => iPre'[0] = iPre[0]
    BY <2>2, <2>3
  <2>5. mib'.free_FIB_count = mib.free_FIB_count + 1
    BY <2>2, <2>3
  <2>6. mib.free_FIB_count \in Int
    BY <2>2, SfsAssumption
  <2> QED BY <2>1, <2>4, <2>5, <2>6 DEF HeaderStep
<1>6. ASSUME NEW i \in Opened, NEW s \in Texts, Written(i, s) PROVE HeaderStep
  <2>1. PICK j, u : /\ j = Missing(i, Len(s))
                    /\ u = IF file[i].logic_position + Len(s) > file[i].length
                           THEN (-(file[i].logic_position + Len(s))) % ClusterData
                           ELSE fib[i].tail_cluster_unuse_byte
    OBVIOUS
  <2>2. Wrote(i, j, u)
    BY <1>6, <2>1, WrittenChains
  <2>3. iPre'[0] = iPre[0]
    BY <2>2 DEF Wrote
  <2> QED BY <2>3 DEF HeaderStep
<1>7. ASSUME NEW f \in Names, Create(f) \/ Delete(f) \/ Open(f) PROVE HeaderStep
  BY <1>1, <1>4, <1>5, <1>7, CreateCases, DeleteCases DEF Open, Refuse
<1>8. ASSUME NEW i \in Fibs,
             \/ Close(i)
             \/ \E n \in Lengths : Read(i, n)
             \/ \E s \in Texts : Write(i, s)
             \/ \E p \in Positions : Seek(i, p)
      PROVE  HeaderStep
  <2>1. CASE \E s \in Texts : Write(i, s)
    BY <1>1, <1>6, <2>1, WriteCases
  <2>2. CASE Close(i) \/ (\E n \in Lengths : Read(i, n)) \/ \E p \in Positions : Seek(i, p)
    BY <1>1, <2>2 DEF Close, Read, Seek, Refuse
  <2> QED BY <1>8, <2>1, <2>2
<1>9. CASE UNCHANGED vars
  BY <1>1, <1>9 DEF vars
<1> QED BY <1>2, <1>3, <1>7, <1>8, <1>9 DEF Next

\* The link of cluster 0 under the memory header is written by format, and besides in two
\* cases alone: the create that takes the last free cluster, and the delete that gives back
\* the first one.
THEOREM HeaderKeptCorrect == Spec => HeaderKept
<1>1. SfsInv /\ [Next]_vars => [HeaderStep]_vars
  BY HeaderHolds
<1> QED BY <1>1, InvHolds, PTL DEF Spec, HeaderKept, HeaderStep

----------------------------------------------------------------------------
\* The refinement mapping: a file is the bytes of its chain up to its size.

Bytes(i) == [k \in 1..Size(i) |-> ByteAt(ChainOf(i), k - 1)]

\* A file fills its clusters, but for a part of the last one.
FullInv ==
  \A i \in Used : fib[i].tail_cluster_unuse_byte = ClusterData => fib[i].total_cluster = 1

StoreInv == SfsInv /\ FullInv

FilesSeen ==
  /\ \A f \in Names : Named(f) = {} => Contents[f] = None /\ Position[f] = None
  /\ \A i \in Used :
       /\ fib[i].fname \in Names /\ Named(fib[i].fname) = {i}
       /\ Bytes(i) \in Seq(Byte) /\ Len(Bytes(i)) = Size(i)
       /\ Contents[fib[i].fname] = Bytes(i) /\ Bytes(i) # None
       /\ Position[fib[i].fname] = IF i \in Opened THEN file[i].logic_position ELSE None
       /\ i \in Opened => file[i].logic_position # None

\* The bytes of a file lie in its clusters.
LEMMA PlaceFacts ==
  ASSUME SfsInv, NEW i \in Used, NEW p \in Nat, p < Size(i)
  PROVE  /\ (p \div ClusterData) + 1 \in 1..Total(i)
         /\ p % ClusterData \in 0..(ClusterData - 1)
         /\ p = (p \div ClusterData) * ClusterData + (p % ClusterData)
<1>1. /\ Size(i) = Total(i) * ClusterData - fib[i].tail_cluster_unuse_byte
      /\ Total(i) \in Nat \ {0} /\ fib[i].tail_cluster_unuse_byte \in 0..ClusterData
      /\ ClusterData \in Nat \ {0}
  BY SizeFacts
<1>2. Total(i) * ClusterData \in Int
  BY <1>1, ProductInt
<1>3. p < Total(i) * ClusterData
  BY <1>1, <1>2
<1>4. p \div ClusterData \in Nat /\ p \div ClusterData < Total(i)
  BY <1>1, <1>3, DivBound
<1>5. p % ClusterData \in 0..(ClusterData - 1)
  <2>1. p \in Int /\ ClusterData \in Nat \ {0}
    BY SfsAssumption
  <2> QED BY <2>1, DivType
<1>6. p = (p \div ClusterData) * ClusterData + (p % ClusterData)
  <2>1. p \in Int /\ ClusterData \in Nat \ {0}
    BY SfsAssumption
  <2> QED BY <2>1, DivMod, Zenon
<1>7. (p \div ClusterData) + 1 \in 1..Total(i)
  <2> DEFINE q == p \div ClusterData
             T == Total(i)
  <2>1. q \in Nat /\ q < T /\ T \in Nat
    BY <1>1, <1>4
  <2> HIDE DEF q, T
  <2>2. q + 1 \in 1..T
    BY <2>1
  <2> QED BY <2>2 DEF q, T
<1> QED BY <1>5, <1>6, <1>7, Zenon

LEMMA BytesType ==
  ASSUME SfsInv, NEW i \in Used
  PROVE  Bytes(i) \in Seq(Byte) /\ Len(Bytes(i)) = Size(i) /\ Bytes(i) # None
<1>1. Size(i) \in Nat
  BY SizeFacts
<1>2. ChainOf(i) \in [1..Total(i) -> Cluster]
  <2>1. mib.fit
    BY DEF SfsInv, RawInv
  <2> QED BY <2>1, InvFacts, FitFacts DEF Owners
<1>3. data \in [Cluster -> [0..(ClusterData - 1) -> Byte]]
  BY DEF SfsInv, TypeOK
<1>4. \A k \in 1..Size(i) : ByteAt(ChainOf(i), k - 1) \in Byte
  <2> SUFFICES ASSUME NEW k \in 1..Size(i) PROVE ByteAt(ChainOf(i), k - 1) \in Byte
    OBVIOUS
  <2> DEFINE p == k - 1
             q == (p \div ClusterData) + 1
             r == p % ClusterData
  <2>1. p \in Nat /\ p < Size(i)
    BY <1>1
  <2>2. q \in 1..Total(i) /\ r \in 0..(ClusterData - 1)
    BY <2>1, PlaceFacts
  <2>3. ByteAt(ChainOf(i), k - 1) = data[ChainOf(i)[q]][r]
    BY DEF ByteAt
  <2> HIDE DEF p, q, r
  <2>4. PICK c \in Cluster : c = ChainOf(i)[q]
    BY <1>2, <2>2
  <2>5. data[c][r] \in Byte
    BY <1>3, <2>2
  <2> QED BY <2>3, <2>4, <2>5
<1>5. Bytes(i) \in Seq(Byte) /\ Len(Bytes(i)) = Size(i)
  BY <1>1, <1>4 DEF Bytes
<1> QED BY <1>5, NoneAssumption

LEMMA SfsSeen == SfsInv => FilesSeen
<1> SUFFICES ASSUME SfsInv PROVE FilesSeen
  OBVIOUS
<1>1. ASSUME NEW f \in Names, Named(f) = {} PROVE Contents[f] = None /\ Position[f] = None
  BY <1>1 DEF Contents, Position, Bytewise
<1>2. ASSUME NEW i \in Used
      PROVE  /\ fib[i].fname \in Names /\ Named(fib[i].fname) = {i}
             /\ Contents[fib[i].fname] = Bytes(i)
             /\ Position[fib[i].fname] = IF i \in Opened THEN file[i].logic_position ELSE None
             /\ i \in Opened => file[i].logic_position # None
  <2> DEFINE f == fib[i].fname
  <2>1. f \in Names /\ Named(f) = {i}
    BY DEF SfsInv, NamesInv, Named
  <2>2. (CHOOSE k \in Named(f) : TRUE) = i /\ Named(f) # {}
    BY <2>1
  <2>3. Contents[f] = Bytewise(f)
    BY <2>1 DEF Contents
  <2>4. ChainOf(i) = Chain(iNext, fib[i].iHead, fib[i].total_cluster)
    <3>1. i # FreeList
      BY InvFacts
    <3> QED BY <3>1 DEF ChainOf, First, Total
  <2>5. Contents[f] = Bytes(i)
    BY <2>2, <2>3, <2>4, Zenon DEF Bytewise, Bytes
  <2>6. Position[f] = IF i \in Opened THEN file[i].logic_position ELSE None
    BY <2>1, <2>2 DEF Position
  <2>7. i \in Opened => file[i].logic_position # None
    BY HandleFacts, NoneAssumption
  <2> QED BY <2>1, <2>5, <2>6, <2>7
<1> QED BY <1>1, <1>2, BytesType, Zenon DEF FilesSeen

LEMMA SeenAfter == SfsInv' => FilesSeen'
BY SfsSeen, PTL

\* The instance has its own copies of the operators that FileStore extends.
LEMMA SameOperators ==
  \A S : /\ Store!Cardinality(S) = Cardinality(S)
         /\ Store!Max(S) = Max(S) /\ Store!Min(S) = Min(S)
<1> SUFFICES ASSUME NEW S
             PROVE  /\ Store!Cardinality(S) = Cardinality(S)
                    /\ Store!Max(S) = Max(S) /\ Store!Min(S) = Min(S)
  OBVIOUS
<1>1. Store!Cardinality(S) = Cardinality(S)
  BY Zenon DEF Store!Cardinality, Cardinality
<1>2. Store!Max(S) = Max(S) /\ Store!Min(S) = Min(S)
  BY Zenon DEF Store!Max, Max, Store!Min, Min
<1> QED BY <1>1, <1>2

LEMMA FittingClusters ==
  ASSUME NEW T \in Nat \ {0}, NEW u \in 0..ClusterData, NEW n \in Nat,
         n = T * ClusterData - u, u = ClusterData => T = 1
  PROVE  Store!Clusters(n) = T
<1> DEFINE d == ClusterData
<1>1. d \in Nat \ {0}
  BY SfsAssumption
<1>2. CASE n = 0
  <2>1. T * d \in Int /\ (2 * d = d + d)
    BY <1>1, ProductInt
  <2>2. T >= 2 => T * d >= 2 * d
    BY <1>1, ProductOrder
  <2>3. T = 1
    BY <1>1, <1>2, <2>1, <2>2
  <2> QED BY <1>2, <2>3 DEF Store!Clusters
<1>3. CASE n # 0
  <2>1. u # d
    BY <1>1, <1>3
  <2>2. T * d \in Int /\ T \in Int
    BY <1>1, ProductInt
  <2> DEFINE a == n + d - 1
             r == d - 1 - u
  <2>3. a = T * d + r /\ r \in 0..(d - 1) /\ a \in Int
    BY <1>1, <2>1, <2>2
  <2> HIDE DEF r
  <2>4. a \div d = T
    <3> HIDE DEF a
    <3> QED BY <1>1, <2>2, <2>3, DivIs
  <2> QED BY <1>3, <2>4 DEF Store!Clusters
<1> QED BY <1>2, <1>3

LEMMA FileClusters ==
  ASSUME StoreInv, NEW i \in Used
  PROVE  Store!Clusters(Size(i)) = Total(i)
<1>1. /\ Size(i) = Total(i) * ClusterData - fib[i].tail_cluster_unuse_byte
      /\ Size(i) \in Nat /\ Total(i) \in Nat \ {0}
      /\ fib[i].tail_cluster_unuse_byte \in 0..ClusterData
  BY SizeFacts DEF StoreInv
<1>2. fib[i].tail_cluster_unuse_byte = ClusterData => Total(i) = 1
  BY InvFacts DEF StoreInv, FullInv
<1> QED BY <1>1, <1>2, FittingClusters

\* There is room for FileStore when there is room on the disk.
LEMMA RoomSeen ==
  ASSUME SfsInv
  PROVE  Store!Room <=> mib.free_FIB_count # 0 /\ mib.free_cluster_count # 0
<1>1. CASE ~mib.fit
  BY <1>1 DEF Store!Room, SfsInv, RawInv
<1>2. CASE mib.fit
  <2> DEFINE name == [i \in Used |-> fib[i].fname]
             E == Store!Exist
  <2>1. FilesSeen
    BY SfsSeen
  <2>2. E = {f \in Names : Contents[f] # None}
    BY DEF Store!Exist
  <2>3. name \in Bijection(Used, E)
    <3>1. \A i \in Used : name[i] \in E
      BY <2>1, <2>2 DEF FilesSeen
    <3>2. \A i, k \in Used : name[i] = name[k] => i = k
      BY DEF SfsInv, NamesInv
    <3>3. \A f \in E : \E i \in Used : name[i] = f
      <4> SUFFICES ASSUME NEW f \in E PROVE \E i \in Used : name[i] = f
        OBVIOUS
      <4>1. Named(f) # {}
        BY <2>1, <2>2 DEF FilesSeen
      <4> QED BY <4>1 DEF Named
    <3> HIDE DEF name, E
    <3>4. name \in [Used -> E]
      BY <3>1 DEF name
    <3>5. name \in Injection(Used, E)
      BY <3>2, <3>4 DEF Injection, IsInjective
    <3>6. name \in Surjection(Used, E)
      BY <3>3, <3>4, Zenon DEF Surjection
    <3> QED BY <3>5, <3>6, Zenon DEF Bijection
  <2>4. IsFiniteSet(Used)
    <3>1. IsFiniteSet(Fibs)
      BY SfsAssumption, FS_Interval DEF Fibs
    <3> QED BY <3>1, InvFacts, FS_Subset
  <2>5. Cardinality(E) = Cardinality(Used) /\ Cardinality(Used) \in Nat
    <3>1. ExistsBijection(Used, E)
      BY <2>3, Zenon DEF ExistsBijection
    <3> HIDE DEF E
    <3> QED BY <2>4, <3>1, FS_Bijection, FS_CardinalityType
  <2>6. mib.free_FIB_count + Cardinality(Used) = NumFib
    BY <1>2 DEF SfsInv, KeptInv
  <2>7. mib.free_FIB_count \in Nat /\ mib.free_cluster_count \in Nat /\ NumFib \in Nat
    BY SfsAssumption DEF SfsInv, TypeOK, Links
  <2>8. Store!Room <=> Cardinality(E) < NumFib /\ mib.free_cluster_count > 0
    <3>1. Store!Cardinality(E) = Cardinality(E)
      BY SameOperators, Zenon
    <3> QED BY <1>2, <3>1 DEF Store!Room
  <2> HIDE DEF E
  <2> QED BY <2>5, <2>6, <2>7, <2>8
<1> QED BY <1>1, <1>2

----------------------------------------------------------------------------
\* What a call leaves of the files it is not about.

Same(q) ==
  /\ q \in Used /\ q \in Used' /\ fib'[q].fname = fib[q].fname /\ Bytes(q)' = Bytes(q)
  /\ q \in Opened' <=> q \in Opened
  /\ q \in Opened => file'[q].logic_position = file[q].logic_position

LEMMA OthersSame ==
  ASSUME SfsInv, SfsInv', NEW f \in Names,
         \A q \in Used : fib[q].fname # f => Same(q),
         \A q \in Used' : fib'[q].fname # f => Same(q)
  PROVE  /\ Contents' = [Contents EXCEPT ![f] = Contents'[f]]
         /\ Position' = [Position EXCEPT ![f] = Position'[f]]
<1>1. FilesSeen /\ FilesSeen'
  BY SfsSeen, SeenAfter
<1>2. ASSUME NEW g \in Names, g # f
      PROVE  Contents'[g] = Contents[g] /\ Position'[g] = Position[g]
  <2>1. CASE Named(g) = {}
    <3>1. Named(g)' = {}
      BY <1>2, <2>1 DEF Named, Same
    <3> QED BY <1>1, <2>1, <3>1 DEF FilesSeen
  <2>2. CASE Named(g) # {}
    <3>1. PICK i \in Used : fib[i].fname = g
      BY <2>2 DEF Named
    <3>2. Same(i)
      BY <1>2, <3>1
    <3>3. fib'[i].fname = g
      BY <3>1, <3>2 DEF Same
    <3>4. /\ Contents[g] = Bytes(i)
          /\ Position[g] = IF i \in Opened THEN file[i].logic_position ELSE None
      BY <1>1, <3>1 DEF FilesSeen
    <3>5. /\ Contents'[g] = Bytes(i)'
          /\ Position'[g] = IF i \in Opened' THEN file'[i].logic_position ELSE None
      BY <1>1, <3>2, <3>3 DEF FilesSeen, Same
    <3> QED BY <3>2, <3>4, <3>5 DEF Same
  <2> QED BY <2>1, <2>2
<1>3. /\ Contents = [g \in Names |-> Contents[g]] /\ Contents' = [g \in Names |-> Contents'[g]]
      /\ Position = [g \in Names |-> Position[g]] /\ Position' = [g \in Names |-> Position'[g]]
  BY DEF Contents, Position
<1>4. /\ DOMAIN Contents = Names /\ DOMAIN Contents' = Names
      /\ DOMAIN Position = Names /\ DOMAIN Position' = Names
  BY DEF Contents, Position
<1>5. Contents' = [Contents EXCEPT ![f] = Contents'[f]]
  BY <1>2, <1>3, <1>4
<1>6. Position' = [Position EXCEPT ![f] = Position'[f]]
  BY <1>2, <1>3, <1>4
<1> QED BY <1>5, <1>6

\* A file whose clusters and their bytes stay has the same bytes.
LEMMA SameBytes ==
  ASSUME SfsInv, NEW q \in Used, ChainOf(q)' = ChainOf(q), Size(q)' = Size(q),
         \A k \in 1..Total(q) : data'[ChainOf(q)[k]] = data[ChainOf(q)[k]]
  PROVE  Bytes(q)' = Bytes(q)
<1>1. Size(q) \in Nat
  BY SizeFacts
<1>2. ASSUME NEW k \in 1..Size(q) PROVE ByteAt(ChainOf(q), k - 1)' = ByteAt(ChainOf(q), k - 1)
  <2> DEFINE p == k - 1
             m == (p \div ClusterData) + 1
  <2>1. p \in Nat /\ p < Size(q)
    BY <1>1
  <2>2. m \in 1..Total(q)
    BY <2>1, PlaceFacts
  <2>3. ByteAt(ChainOf(q), k - 1)' = data'[ChainOf(q)[m]][p % ClusterData]
    BY DEF ByteAt
  <2>4. ByteAt(ChainOf(q), k - 1) = data[ChainOf(q)[m]][p % ClusterData]
    BY DEF ByteAt
  <2> HIDE DEF p, m
  <2> QED BY <2>2, <2>3, <2>4
<1>3. Bytes(q)' = [k \in 1..Size(q) |-> ByteAt(ChainOf(q), k - 1)']
  BY Zenon DEF Bytes
<1> QED BY <1>2, <1>3, Zenon DEF Bytes

----------------------------------------------------------------------------
\* Calls that leave the disk alone.

LEMMA ContentsKept ==
  ASSUME UNCHANGED disk
  PROVE  Contents' = Contents /\ \A i : Bytes(i)' = Bytes(i)
<1>1. mib' = mib /\ fib' = fib /\ iPre' = iPre /\ iNext' = iNext /\ data' = data
  BY DEF disk
<1>2. \A i : Size(i)' = Size(i) /\ ChainOf(i)' = ChainOf(i)
  BY <1>1, Zenon DEF Size, ChainOf, Total, First
<1>3. \A c, p : ByteAt(c, p)' = ByteAt(c, p)
  BY <1>1, Zenon DEF ByteAt
<1>4. \A i : Bytes(i)' = Bytes(i)
  BY <1>2, <1>3, Zenon DEF Bytes
<1>5. \A f : Named(f)' = Named(f)
  BY <1>1, Zenon DEF Named, Used
<1>6. \A f : Bytewise(f)' = Bytewise(f)
  BY <1>1, <1>2, <1>3, <1>5, Zenon DEF Bytewise
<1> QED BY <1>4, <1>6, Zenon DEF Contents

LEMMA StillSeen ==
  ASSUME UNCHANGED <<disk, file>>
  PROVE  Contents' = Contents /\ Position' = Position /\ mib' = mib
<1>1. mib' = mib /\ fib' = fib /\ file' = file
  BY DEF disk
<1>2. Position' = Position
  <2> DEFINE at(f) == IF Named(f) \cap Opened = {} THEN None
                      ELSE file[CHOOSE i \in Named(f) : TRUE].logic_position
  <2>1. Opened' = Opened /\ \A f : Named(f)' = Named(f)
    BY <1>1, Zenon DEF Opened, Named, Used
  <2>2. ASSUME NEW f PROVE at(f)' = at(f)
    <3>1. Named(f)' = Named(f)
      BY <2>1
    <3>2. (CHOOSE i \in Named(f) : TRUE)' = CHOOSE i \in Named(f) : TRUE
      BY <3>1
    <3>3. (Named(f) \cap Opened)' = Named(f) \cap Opened
      BY <2>1, <3>1
    <3> QED BY <1>1, <3>2, <3>3
  <2> HIDE DEF at
  <2>3. Position = [f \in Names |-> at(f)] /\ Position' = [f \in Names |-> at(f)']
    BY Zenon DEF Position, at
  <2> QED BY <2>2, <2>3, Zenon
<1> QED BY <1>1, <1>2, ContentsKept

LEMMA RefuseSeen ==
  ASSUME NEW why, Refuse(why)
  PROVE  Store!Refuse(why)
<1>1. Answer(why, <<>>) /\ UNCHANGED <<disk, file>>
  BY DEF Refuse
<1>2. Store!Answer(why, <<>>)
  BY <1>1 DEF Store!Answer, Answer, Store!Running, Running
<1> QED BY <1>1, <1>2, StillSeen DEF Store!Refuse

LEMMA DoneSeen == Done => Store!Done
BY DEF Done, Answer, Running, Store!Done, Store!Answer, Store!Running

\* The handle of a file is opened, moved or closed.
LEMMA HandleSeen ==
  ASSUME SfsInv, SfsInv', UNCHANGED disk, NEW i \in Used, NEW h \in Handle \cup {None},
         file' = [file EXCEPT ![i] = h]
  PROVE  /\ Contents' = Contents
         /\ Position' = [Position EXCEPT ![fib[i].fname] =
              IF h = None THEN None ELSE h.logic_position]
<1> DEFINE f == fib[i].fname
<1>1. fib' = fib /\ Used' = Used
  BY DiskKept DEF disk
<1>2. Contents' = Contents /\ \A q : Bytes(q)' = Bytes(q)
  BY ContentsKept
<1>3. file \in [Fibs -> Handle \cup {None}] /\ i \in Fibs
  BY DEF SfsInv, TypeOK, Used
<1>4. \A q \in Used : fib[q].fname # f => Same(q)
  <2> SUFFICES ASSUME NEW q \in Used, fib[q].fname # f PROVE Same(q)
    OBVIOUS
  <2>1. q \in Fibs /\ file'[q] = file[q]
    BY <1>3 DEF Used
  <2>2. q \in Opened' <=> q \in Opened
    BY <2>1 DEF Opened
  <2> QED BY <1>1, <1>2, <2>1, <2>2 DEF Same
<1>5. f \in Names /\ FilesSeen'
  BY SfsSeen, SeenAfter DEF FilesSeen
<1>6. Position' = [Position EXCEPT ![f] = Position'[f]]
  BY <1>1, <1>4, <1>5, OthersSame
<1>7. Position'[f] = IF i \in Opened' THEN file'[i].logic_position ELSE None
  BY <1>1, <1>5 DEF FilesSeen
<1>8. file'[i] = h /\ (i \in Opened' <=> h # None)
  BY <1>3 DEF Opened
<1> QED BY <1>2, <1>6, <1>7, <1>8

\* A file as FileStore sees it.
LEMMA FileSeen ==
  ASSUME SfsInv, NEW i \in Used
  PROVE  /\ fib[i].fname \in Store!Exist /\ Len(Contents[fib[i].fname]) = Size(i)
         /\ Contents[fib[i].fname] = Bytes(i)
         /\ fib[i].fname \in Store!Opened <=> i \in Opened
         /\ i \in Opened => /\ Position[fib[i].fname] = file[i].logic_position
                            /\ Len(Contents[fib[i].fname]) = file[i].length
<1>1. FilesSeen
  BY SfsSeen
<1>2. /\ fib[i].fname \in Names /\ Contents[fib[i].fname] = Bytes(i) /\ Bytes(i) # None
      /\ Len(Bytes(i)) = Size(i)
      /\ Position[fib[i].fname] = IF i \in Opened THEN file[i].logic_position ELSE None
      /\ i \in Opened => file[i].logic_position # None
  BY <1>1 DEF FilesSeen
<1>3. i \in Opened => file[i].length = Size(i)
  BY HandleFacts
<1> QED BY <1>2, <1>3 DEF Store!Exist, Store!Opened

LEMMA NoFileSeen ==
  ASSUME SfsInv, NEW f \in Names, Named(f) = {}
  PROVE  f \notin Store!Exist /\ f \notin Store!Opened
BY SfsSeen DEF FilesSeen, Store!Exist, Store!Opened

LEMMA SeekSeen ==
  ASSUME SfsInv, SfsInv', NEW i \in Fibs, NEW p \in Positions, Seek(i, p)
  PROVE  Store!Seek(fib[i].fname, p)
<1>1. i \in Opened
  BY DEF Seek
<1>2. /\ i \in Used /\ fib[i].fname \in Store!Opened
      /\ Len(Contents[fib[i].fname]) = file[i].length
  BY <1>1, HandleFacts, FileSeen
<1>3. CASE p > file[i].length /\ Refuse("failed")
  BY <1>2, <1>3, RefuseSeen DEF Store!Seek
<1>4. CASE /\ p <= file[i].length /\ file' = [file EXCEPT ![i].logic_position = p]
           /\ Done /\ UNCHANGED disk
  <2> DEFINE h == [file[i] EXCEPT !.logic_position = p]
  <2>1. h \in Handle /\ h.logic_position = p
    BY <1>1, SfsAssumption, HandleFacts DEF Handle
  <2>2. file' = [file EXCEPT ![i] = h]
    BY <1>4
  <2>3. h # None
    BY <2>1, NoneAssumption
  <2> HIDE DEF h
  <2>4. Contents' = Contents /\ Position' = [Position EXCEPT ![fib[i].fname] = p]
    BY <1>2, <1>4, <2>1, <2>2, <2>3, HandleSeen
  <2>5. mib' = mib
    BY <1>4 DEF disk
  <2> QED BY <1>2, <1>4, <2>4, <2>5, DoneSeen DEF Store!Seek
<1> QED BY <1>3, <1>4 DEF Seek

LEMMA CloseSeen ==
  ASSUME SfsInv, SfsInv', NEW i \in Fibs, Close(i)
  PROVE  Store!Close(fib[i].fname)
<1>1. i \in Opened /\ file' = [file EXCEPT ![i] = None] /\ Done /\ UNCHANGED disk
  BY DEF Close
<1>2. i \in Used /\ fib[i].fname \in Store!Opened
  BY <1>1, HandleFacts, FileSeen
<1>3. Contents' = Contents /\ Position' = [Position EXCEPT ![fib[i].fname] = None]
  BY <1>1, <1>2, HandleSeen
<1>4. mib' = mib
  BY <1>1 DEF disk
<1> QED BY <1>1, <1>2, <1>3, <1>4, DoneSeen DEF Store!Close

LEMMA OpenSeen ==
  ASSUME SfsInv, SfsInv', NEW f \in Names, Open(f)
  PROVE  Store!Open(f)
<1>1. CASE ~mib.fit /\ Refuse("killed")
  BY <1>1, RefuseSeen DEF Store!Open
<1>2. CASE mib.fit /\ Named(f) = {} /\ Refuse("failed")
  BY <1>2, RefuseSeen, NoFileSeen DEF Store!Open
<1>3. ASSUME NEW i \in Named(f), i \in Opened, Refuse("failed")
      PROVE  Store!Open(f)
  <2>1. i \in Used /\ fib[i].fname = f /\ mib.fit
    BY <1>3, HandleFacts DEF Named
  <2> QED BY <1>3, <2>1, RefuseSeen, FileSeen DEF Store!Open
<1>4. ASSUME NEW i \in Named(f), i \notin Opened,
             file' = [file EXCEPT ![i] =
               [length |-> Size(i), logic_position |-> 0,
                pIndex |-> Chain(iNext, fib[i].iHead, fib[i].total_cluster)]],
             Done, UNCHANGED disk
      PROVE  Store!Open(f)
  <2> DEFINE h == [length |-> Size(i), logic_position |-> 0,
                   pIndex |-> Chain(iNext, fib[i].iHead, fib[i].total_cluster)]
  <2>1. i \in Used /\ i \in Fibs /\ fib[i].fname = f
    BY DEF Named, Used
  <2>2. file' = [file EXCEPT ![i] = h]
    BY <1>4
  <2>3. ChainOf(i) = Chain(iNext, fib[i].iHead, fib[i].total_cluster)
    <3>1. i # FreeList
      BY <2>1, InvFacts
    <3> QED BY <3>1 DEF ChainOf, First, Total
  <2>4. ChainOf(i) \in Seq(Cluster) /\ Size(i) \in Nat
    <3>1. i \in Owners /\ Totals[i] \in Nat /\ mib.fit
      BY <2>1, InvFacts DEF Owners, SfsInv, RawInv
    <3>2. ChainOf(i) \in [1..Totals[i] -> Cluster]
      BY <3>1, FitFacts
    <3> QED BY <2>1, <3>1, <3>2, SeqDef, SizeFacts
  <2>5. h \in Handle /\ h.logic_position = 0
    BY <2>3, <2>4 DEF Handle
  <2> HIDE DEF h
  <2>6. h # None
    BY <2>5, NoneAssumption
  <2>7. Contents' = Contents /\ Position' = [Position EXCEPT ![f] = 0]
    BY <1>4, <2>1, <2>2, <2>5, <2>6, HandleSeen
  <2>8. mib' = mib
    BY <1>4 DEF disk
  <2>9. mib.fit
    BY <2>1 DEF SfsInv, RawInv
  <2> QED BY <1>4, <2>1, <2>7, <2>8, <2>9, FileSeen, DoneSeen DEF Store!Open
<1> QED BY <1>1, <1>2, <1>3, <1>4, Zenon DEF Open

LEMMA SubSeqIs ==
  ASSUME NEW S, NEW s \in Seq(S), NEW m \in Nat, NEW n \in m..Len(s)
  PROVE  SubSeq(s, m + 1, n) = [k \in 1..(n - m) |-> s[m + k]]
<1>1. n \in Nat /\ Len(s) \in Nat
  BY LenProperties
<1>2. \A k \in (m + 1)..n : s[k] \in S
  <2>1. \A k \in 1..Len(s) : s[k] \in S
    BY ElementOfSeq
  <2> QED BY <1>1, <2>1
<1> DEFINE t == SubSeq(s, m + 1, n)
<1>3. /\ t \in Seq(S) /\ Len(t) = IF m + 1 <= n THEN n - (m + 1) + 1 ELSE 0
      /\ \A k \in 1..(n - (m + 1) + 1) : t[k] = s[m + 1 + k - 1]
  BY <1>1, <1>2, SubSeqProperties
<1> HIDE DEF t
<1>4. Len(t) = n - m
  BY <1>1, <1>3
<1>5. \A k \in 1..(n - m) : t[k] = s[m + k]
  BY <1>1, <1>3
<1>6. t = [k \in 1..(n - m) |-> t[k]]
  BY <1>3, <1>4
<1> QED BY <1>5, <1>6 DEF t

LEMMA ReadSeen ==
  ASSUME SfsInv, SfsInv', NEW i \in Fibs, NEW n \in Lengths, Read(i, n)
  PROVE  Store!Read(fib[i].fname, n)
<1> DEFINE f == fib[i].fname
           from == file[i].logic_position
           len == Min({n, file[i].length - from})
           h == [file[i] EXCEPT !.logic_position = @ + len]
           answer == [k \in 1..len |-> ByteAt(file[i].pIndex, from + k - 1)]
<1>1. i \in Opened /\ file' = [file EXCEPT ![i] = h] /\ UNCHANGED disk /\ Answer("ok", answer)
  BY DEF Read
<1>2. /\ i \in Used /\ file[i] \in Handle /\ file[i].length \in Nat /\ from \in Nat
      /\ file[i].pIndex = ChainOf(i) /\ file[i].length = Size(i) /\ from <= file[i].length
  BY <1>1, HandleFacts
<1>3. /\ f \in Store!Opened /\ Contents[f] = Bytes(i) /\ Position[f] = from
      /\ Len(Bytes(i)) = Size(i) /\ Bytes(i) \in Seq(Byte)
  BY <1>1, <1>2, FileSeen, BytesType
<1>4. n \in Nat
  BY SfsAssumption
<1>5. len \in Nat /\ len <= n /\ from + len <= Size(i)
      /\ Store!Min({from + n, Size(i)}) = from + len
  <2> DEFINE rest == file[i].length - from
             size == Size(i)
             to == from + n
  <2>1. rest \in Nat /\ size \in Nat /\ to \in Nat /\ rest = size - from /\ to = from + n
    BY <1>2, <1>4
  <2> HIDE DEF rest, size, to
  <2>2. Min({n, rest}) = IF n <= rest THEN n ELSE rest
    BY <1>4, <2>1, MinOfTwo
  <2>3. Min({to, size}) = IF to <= size THEN to ELSE size
    BY <2>1, MinOfTwo
  <2>4. Store!Min({to, size}) = Min({to, size})
    BY SameOperators
  <2>5. len = Min({n, rest})
    BY DEF rest
  <2> HIDE DEF len, from
  <2>6. from \in Nat
    BY <1>2
  <2>7. len \in Nat /\ len <= n /\ from + len <= size /\ Store!Min({to, size}) = from + len
    BY <1>4, <2>1, <2>2, <2>3, <2>4, <2>5, <2>6
  <2> QED BY <2>7 DEF size, to
<1> HIDE DEF len
<1>6. h \in Handle /\ h.logic_position = from + len
  BY <1>2, <1>5 DEF Handle
<1>7. h # None
  BY <1>6, NoneAssumption
<1> HIDE DEF h
<1>8. Contents' = Contents /\ Position' = [Position EXCEPT ![f] = from + len]
  BY <1>1, <1>2, <1>6, <1>7, HandleSeen
<1>9. f \in DOMAIN Position
  <2>1. DOMAIN Position = Names
    BY DEF Position
  <2> QED BY <1>2, <2>1, SfsSeen DEF FilesSeen
<1>10. Position'[f] = from + len
  BY <1>8, <1>9
<1>11. SubSeq(Bytes(i), from + 1, from + len) = answer
  <2> DEFINE to == from + len
  <2>1. from \in Nat /\ to \in from..Len(Bytes(i)) /\ to - from = len
    BY <1>2, <1>3, <1>5
  <2> HIDE DEF to
  <2>2. SubSeq(Bytes(i), from + 1, to) = [k \in 1..len |-> Bytes(i)[from + k]]
    BY <1>3, <2>1, SubSeqIs
  <2>3. ASSUME NEW k \in 1..len
        PROVE  Bytes(i)[from + k] = ByteAt(file[i].pIndex, from + k - 1)
    <3>1. from + k \in 1..Size(i)
      BY <1>2, <1>5
    <3>2. Bytes(i)[from + k] = ByteAt(ChainOf(i), (from + k) - 1)
      BY <3>1 DEF Bytes
    <3> QED BY <1>2, <3>2
  <2>4. [k \in 1..len |-> Bytes(i)[from + k]] = answer
    BY <2>3
  <2> QED BY <2>2, <2>4 DEF to
<1>12. reply'.result = "ok" /\ Store!Answer("ok", answer)
  BY <1>1 DEF Answer, Running, Store!Answer, Store!Running
<1>13. Position'[f] - Position[f] \in 0..n
  <2> HIDE DEF from
  <2>1. from \in Nat
    BY <1>2 DEF from
  <2> QED BY <1>3, <1>4, <1>5, <1>10, <2>1 DEF from
<1>14. mib' = mib
  BY <1>1 DEF disk
<1> HIDE DEF answer, from, f
<1>15. Store!Min({from + n, Len(Contents[f])}) = from + len
  BY <1>3, <1>5
<1>16. Store!Read(f, n)
  BY <1>3, <1>8, <1>11, <1>12, <1>13, <1>14, <1>15 DEF Store!Read
<1> QED BY <1>16 DEF f

----------------------------------------------------------------------------
\* Calls that leave no file.

LEMMA NoneLeft ==
  ASSUME SfsInv', Used' = {}
  PROVE  /\ Contents' = [f \in Names |-> None] /\ Position' = [f \in Names |-> None]
         /\ FullInv'
<1>1. \A f \in Names : Named(f)' = {}
  BY DEF Named
<1>2. \A f \in Names : Contents'[f] = None /\ Position'[f] = None
  BY <1>1, SeenAfter DEF FilesSeen
<1>3. /\ Contents' = [f \in Names |-> Contents'[f]]
      /\ Position' = [f \in Names |-> Position'[f]]
  BY DEF Contents, Position
<1> QED BY <1>2, <1>3 DEF FullInv

LEMMA FormatSeen ==
  ASSUME SfsInv, SfsInv', Format
  PROVE  Store!Format /\ FullInv'
<1>1. /\ Opened = {} /\ file' = file /\ Done
      /\ mib'.fit /\ mib'.free_cluster_count = NumCluster
  BY DEF Format
<1>2. Used' = {}
  BY SfsAssumption DEF Format, Used, NoFib
<1>3. \A f \in Names : Position[f] = None
  BY <1>1, Zenon DEF Position
<1>4. Position = [f \in Names |-> Position[f]]
  BY DEF Position
<1>5. Position = [f \in Names |-> None]
  BY <1>3, <1>4
<1>6. Store!Opened = {}
  BY <1>3 DEF Store!Opened
<1> QED BY <1>1, <1>2, <1>5, <1>6, NoneLeft, DoneSeen DEF Store!Format

LEMMA PowerSeen ==
  ASSUME SfsInv', PowerCycle
  PROVE  Store!PowerCycle /\ FullInv'
<1>1. Used' = {} /\ ~mib'.fit /\ mib'.fit = FALSE /\ mib'.free_cluster_count = 0
  BY DEF PowerCycle, RawDisk, Used, NoFib
<1>2. reply' = Nothing
  BY DEF PowerCycle
<1> QED BY <1>1, <1>2, NoneLeft DEF Store!PowerCycle, Store!Nothing, Nothing

LEMMA InitSeen == Init => FullInv /\ Store!Init
<1> SUFFICES ASSUME Init PROVE FullInv /\ Store!Init
  OBVIOUS
<1>1. Used = {} /\ mib.fit = FALSE /\ mib.free_cluster_count = 0 /\ reply = Nothing
  BY DEF Init, RawDisk, Used, NoFib
<1>2. \A f \in Names : Named(f) = {}
  BY <1>1 DEF Named
<1>3. \A f \in Names : Contents[f] = None /\ Position[f] = None
  BY <1>2, Zenon DEF Contents, Position, Bytewise
<1>4. Contents = [f \in Names |-> Contents[f]] /\ Position = [f \in Names |-> Position[f]]
  BY DEF Contents, Position
<1> QED BY <1>1, <1>3, <1>4 DEF FullInv, Store!Init, Store!Nothing, Nothing

----------------------------------------------------------------------------
\* Create and delete.

LEMMA FullKept ==
  ASSUME StoreInv, \A q \in Used' :
           (q \in Used /\ fib'[q] = fib[q]) \/ fib'[q].total_cluster = 1
  PROVE  FullInv'
BY DEF StoreInv, FullInv

LEMMA CreatedSeen ==
  ASSUME StoreInv, SfsInv', NEW f \in Names, Created(f)
  PROVE  /\ Contents' = [Contents EXCEPT ![f] = <<>>] /\ Position' = Position
         /\ FullInv' /\ mib.fit /\ mib'.fit = mib.fit
         /\ mib'.free_cluster_count = mib.free_cluster_count - 1
<1> USE DEF StoreInv
<1>1. PICK e : e = FreeFib
  OBVIOUS
<1>2. /\ mib.fit /\ mib.free_FIB_count # 0 /\ mib.free_cluster_count # 0 /\ Named(f) = {}
      /\ data' = data /\ file' = file
  BY DEF Created, SfsInv, RawInv
<1>3. e \in Fibs /\ e \notin Used /\ e \notin Opened
  BY <1>1, <1>2, FreeFibFacts
<1>4. /\ Used' = Used \cup {e} /\ \A i \in Used : ChainOf(i)' = ChainOf(i)
  BY <1>1, CreatedChains
<1>5. fib' = [fib EXCEPT ![e] =
         [fname |-> f, iHead |-> mib.iFree_cluster, iTail |-> mib.iFree_cluster,
          total_cluster |-> 1, tail_cluster_unuse_byte |-> ClusterData]]
      /\ mib' = [mib EXCEPT !.free_FIB_count = @ - 1,
                   !.iFree_cluster = iNext[mib.iFree_cluster], !.free_cluster_count = @ - 1]
  BY <1>1 DEF Created
<1>6. fib \in [Fibs -> [fname : Names \cup {NoName}, iHead : Links, iTail : Links,
                        total_cluster : Links, tail_cluster_unuse_byte : 0..ClusterData]]
  BY DEF SfsInv, TypeOK
<1>7. \A q \in Used : fib'[q] = fib[q]
  BY <1>3, <1>5
<1>8. /\ fib'[e].fname = f /\ fib'[e].total_cluster = 1
      /\ fib'[e].tail_cluster_unuse_byte = ClusterData
  BY <1>3, <1>5, <1>6
<1>9. ASSUME NEW q \in Used PROVE Same(q)
  <2>1. Size(q)' = Size(q)
    BY <1>7, Zenon DEF Size
  <2>2. Bytes(q)' = Bytes(q)
    BY <1>2, <1>4, <2>1, SameBytes
  <2>3. q \in Opened' <=> q \in Opened
    BY <1>2 DEF Opened
  <2> QED BY <1>2, <1>4, <1>7, <2>2, <2>3 DEF Same
<1>10. /\ Contents' = [Contents EXCEPT ![f] = Contents'[f]]
       /\ Position' = [Position EXCEPT ![f] = Position'[f]]
  <2>1. \A q \in Used' : fib'[q].fname # f => q \in Used
    BY <1>4, <1>8
  <2> QED BY <1>9, <2>1, OthersSame
<1>11. Contents'[f] = Bytes(e)' /\ Position'[f] = None
  <2>1. e \in Used' /\ e \notin Opened'
    BY <1>2, <1>3, <1>4 DEF Opened
  <2> QED BY <1>8, <2>1, SeenAfter DEF FilesSeen
<1>12. Bytes(e)' = <<>>
  <2>1. ClusterData \in Nat
    BY SfsAssumption
  <2>2. Size(e)' = 0
    BY <1>8, <2>1 DEF Size
  <2> QED BY <2>2 DEF Bytes
<1>13. Position[f] = None
  BY <1>2, SfsSeen DEF FilesSeen
<1>14. Position' = Position
  <2>1. DOMAIN Position = Names /\ Position = [g \in Names |-> Position[g]]
    BY DEF Position
  <2> QED BY <1>10, <1>11, <1>13, <2>1
<1>15. FullInv'
  BY <1>4, <1>7, <1>8, FullKept
<1>16. mib'.fit = mib.fit /\ mib'.free_cluster_count = mib.free_cluster_count - 1
  BY <1>5 DEF SfsInv, TypeOK
<1> QED BY <1>2, <1>10, <1>11, <1>12, <1>14, <1>15, <1>16

LEMMA CreateSeen ==
  ASSUME StoreInv, SfsInv', NEW f \in Names, Create(f)
  PROVE  Store!Create(f)
<1> DEFINE room == mib.free_FIB_count # 0 /\ mib.free_cluster_count # 0
<1>1. Store!Room <=> room
  BY RoomSeen DEF StoreInv
<1>2. CASE ~room /\ Refuse("device error")
  BY <1>1, <1>2, RefuseSeen DEF Store!Create
<1>3. CASE room /\ Named(f) # {} /\ Refuse("bad input")
  <2>1. PICK i \in Used : fib[i].fname = f
    BY <1>3 DEF Named
  <2>2. f \in Store!Exist
    BY <2>1, FileSeen DEF StoreInv
  <2> QED BY <1>1, <1>3, <2>2, RefuseSeen DEF Store!Create
<1>4. CASE room /\ Done /\ Created(f)
  <2>1. f \notin Store!Exist
    BY <1>4, NoFileSeen DEF StoreInv, Created
  <2> QED BY <1>1, <1>4, <2>1, CreatedSeen, DoneSeen DEF Store!Create
<1> QED BY <1>2, <1>3, <1>4 DEF Create, Created

LEMMA PlacedApart ==
  ASSUME NEW own, NEW n, NEW s, Placed(own, n, s), NEW o \in own, NEW p \in own,
         NEW k \in 1..n[o], NEW l \in 1..n[p], s[o][k] = s[p][l]
  PROVE  o = p /\ k = l
BY DEF Placed

\* The clusters of the other files keep their bytes when a file is erased.
LEMMA DeletedOthers ==
  ASSUME SfsInv, NEW i, Deleted(i), NEW q \in Used \ {i}, NEW k \in 1..Total(q)
  PROVE  data'[ChainOf(q)[k]] = data[ChainOf(q)[k]]
<1> DEFINE all == {Chain(iNext, fib[i].iHead, NumCluster)[l] : l \in Cluster}
           n == Totals[i]
           d == Chain(iNext, fib[i].iHead, NumCluster)
<1>1. /\ i \in Used /\ i \in Owners /\ i # FreeList /\ n \in Nat \ {0}
      /\ Chains[i] = ChainOf(i) /\ n = Total(i) /\ mib.fit
      /\ q \in Owners /\ Totals[q] = Total(q) /\ Chains[q] = ChainOf(q)
  BY InvFacts DEF Deleted, Owners
<1>2. ChainOf(i) \in [1..n -> Cluster] /\ n <= NumCluster
      /\ ChainOf(q) \in [1..Total(q) -> Cluster]
      /\ Placed(Owners, Totals, Chains) /\ Chained(Owners, Totals, Chains, iNext, iPre)
  BY <1>1, FitFacts
<1>3. ChainOf(i) = Chain(iNext, fib[i].iHead, n)
  BY <1>1 DEF ChainOf, First
<1>4. NumCluster \in Nat
  BY SfsAssumption
<1> HIDE DEF n
<1>5. \A l \in 1..n : ChainOf(i)[l] = d[l]
  BY <1>1, <1>2, <1>3, <1>4, ChainPrefix
<1>6. d[n] # 0 /\ iNext[d[n]] = 0
  <2>1. n \in 1..n
    BY <1>1
  <2>2. d[n] = Chains[i][n] /\ Chains[i][n] \in Cluster
    BY <1>1, <1>2, <1>5, <2>1
  <2>3. iNext[Chains[i][n]] = 0
    BY <1>1, <1>2 DEF Chained, n
  <2> QED BY <2>2, <2>3 DEF Cluster
<1>7. \A l \in (n + 1)..NumCluster : d[l] = 0
  <2>1. n \in Nat /\ 0 < n /\ n <= NumCluster
    BY <1>1, <1>2
  <2> HIDE DEF d
  <2>2. \A next, head : d = Chain(next, head, NumCluster) /\ next[d[n]] = 0 =>
          \A l \in (n + 1)..NumCluster : d[l] = 0
    BY <1>4, <1>6, <2>1, ChainPast
  <2>3. d = Chain(iNext, fib[i].iHead, NumCluster)
    BY DEF d
  <2> QED BY <1>6, <2>2, <2>3
<1>8. PICK c \in Cluster : c = ChainOf(q)[k]
  BY <1>2
<1>9. \A l \in 1..n : ChainOf(i)[l] # c
  <2> SUFFICES ASSUME NEW l \in 1..n, ChainOf(i)[l] = c PROVE FALSE
    OBVIOUS
  <2>1. Chains[i][l] = Chains[q][k] /\ l \in 1..Totals[i] /\ k \in 1..Totals[q] /\ i # q
    BY <1>1, <1>8 DEF n
  <2>2. i = q
    <3>1. Placed(Owners, Totals, Chains) /\ i \in Owners /\ q \in Owners
      BY <1>1, <1>2
    <3> QED BY <2>1, <3>1, PlacedApart
  <2> QED BY <2>1, <2>2
<1>10. c \notin all
  <2> SUFFICES ASSUME NEW l \in Cluster, d[l] = c PROVE FALSE
    OBVIOUS
  <2>1. l \in 1..n \/ l \in (n + 1)..NumCluster
    BY <1>1, <1>4 DEF Cluster
  <2>2. c # 0
    BY DEF Cluster
  <2> HIDE DEF d
  <2> QED BY <1>5, <1>7, <1>9, <2>1, <2>2
<1>11. data' = [b \in Cluster |-> IF b \in all THEN EmptyCluster ELSE data[b]]
  BY DEF Deleted, Free
<1> HIDE DEF all
<1> QED BY <1>8, <1>10, <1>11

LEMMA DeletedSeen ==
  ASSUME StoreInv, SfsInv', NEW i, Deleted(i), NEW f, f = fib[i].fname
  PROVE  /\ Contents' = [Contents EXCEPT ![f] = None] /\ Position' = Position
         /\ FullInv' /\ mib'.fit = mib.fit
         /\ mib'.free_cluster_count = mib.free_cluster_count + Store!Clusters(Size(i))
<1> USE DEF StoreInv
<1>1. /\ i \in Used /\ i \in Fibs /\ mib.fit /\ i \notin Opened /\ file' = file
      /\ fib' = [fib EXCEPT ![i] = [NoFib EXCEPT !.tail_cluster_unuse_byte = ClusterData]]
      /\ mib' = [mib EXCEPT !.iFree_cluster = fib[i].iHead, !.free_FIB_count = @ + 1,
                   !.free_cluster_count = @ + fib[i].total_cluster]
  BY InvFacts DEF Deleted, Free
<1>2. Used' = Used \ {i} /\ \A q \in Used \ {i} : ChainOf(q)' = ChainOf(q)
  BY DeletedChains
<1>3. DOMAIN fib = Fibs
  BY DEF SfsInv, TypeOK
<1>4. \A q \in Used \ {i} : fib'[q] = fib[q]
  BY <1>1, <1>3, InvFacts
<1>5. f \in Names /\ Named(f) = {i}
  BY <1>1, SfsSeen DEF FilesSeen
<1>6. Named(f)' = {}
  BY <1>2, <1>4, <1>5 DEF Named
<1>7. ASSUME NEW q \in Used \ {i} PROVE Same(q)
  <2>1. Size(q)' = Size(q)
    BY <1>4, Zenon DEF Size
  <2>2. Bytes(q)' = Bytes(q)
    BY <1>2, <2>1, DeletedOthers, SameBytes
  <2>3. q \in Opened' <=> q \in Opened
    BY <1>1 DEF Opened
  <2> QED BY <1>1, <1>2, <1>4, <2>2, <2>3 DEF Same
<1>8. /\ Contents' = [Contents EXCEPT ![f] = Contents'[f]]
      /\ Position' = [Position EXCEPT ![f] = Position'[f]]
  BY <1>2, <1>5, <1>7, OthersSame
<1>9. Contents'[f] = None /\ Position'[f] = None
  BY <1>5, <1>6, SeenAfter DEF FilesSeen
<1>10. Position[f] = None
  BY <1>1, SfsSeen DEF FilesSeen
<1>11. Position' = Position
  <2>1. DOMAIN Position = Names /\ Position = [g \in Names |-> Position[g]]
    BY DEF Position
  <2> QED BY <1>8, <1>9, <1>10, <2>1
<1>12. FullInv'
  BY <1>2, <1>4, FullKept
<1>13. mib'.fit = mib.fit
       /\ mib'.free_cluster_count = mib.free_cluster_count + fib[i].total_cluster
  BY <1>1 DEF SfsInv, TypeOK
<1>14. Store!Clusters(Size(i)) = fib[i].total_cluster
  BY <1>1, FileClusters, InvFacts
<1> QED BY <1>8, <1>9, <1>11, <1>12, <1>13, <1>14

LEMMA DeleteSeen ==
  ASSUME StoreInv, SfsInv', NEW f \in Names, Delete(f)
  PROVE  Store!Delete(f)
<1> USE DEF StoreInv
<1>1. CASE ~mib.fit /\ Refuse("killed")
  BY <1>1, RefuseSeen DEF Store!Delete
<1>2. CASE mib.fit /\ Named(f) = {} /\ Done /\ UNCHANGED <<disk, file>>
  <2>1. f \notin Store!Exist /\ f \notin Store!Opened
    BY <1>2, NoFileSeen
  <2>2. Contents[f] = None
    BY <2>1 DEF Store!Exist
  <2>3. Contents = [Contents EXCEPT ![f] = None]
    <3>1. DOMAIN Contents = Names /\ Contents = [g \in Names |-> Contents[g]]
      BY DEF Contents
    <3> QED BY <2>2, <3>1
  <2> QED BY <1>2, <2>1, <2>3, StillSeen, DoneSeen DEF Store!Delete
<1>3. ASSUME NEW i \in Named(f), i \in Opened, Refuse("failed")
      PROVE  Store!Delete(f)
  <2>1. i \in Used /\ fib[i].fname = f /\ mib.fit
    BY <1>3, HandleFacts DEF Named
  <2> QED BY <1>3, <2>1, RefuseSeen, FileSeen DEF Store!Delete
<1>4. ASSUME NEW i \in Named(f), i \notin Opened, Free(i), Done, UNCHANGED file,
             fib' = [fib EXCEPT ![i] = [NoFib EXCEPT !.tail_cluster_unuse_byte = ClusterData]]
      PROVE  Store!Delete(f)
  <2>1. i \in Used /\ fib[i].fname = f
    BY DEF Named
  <2>2. mib.fit
    BY <2>1 DEF SfsInv, RawInv
  <2>3. Deleted(i)
    BY <1>4, <2>1, <2>2 DEF Deleted
  <2>4. f \in Store!Exist /\ f \notin Store!Opened /\ Len(Contents[f]) = Size(i)
    BY <1>4, <2>1, FileSeen
  <2> QED BY <1>4, <2>1, <2>2, <2>3, <2>4, DeletedSeen, DoneSeen DEF Store!Delete
<1> QED BY <1>1, <1>2, <1>3, <1>4, Zenon DEF Delete

----------------------------------------------------------------------------
\* Write.

\* The file's clusters after a write hold the new file as FileStore counts them.
LEMMA WriteClusters ==
  ASSUME StoreInv, NEW i \in Opened, NEW n \in Nat \ {0}, NEW j, j = Missing(i, n),
         NEW end, end = file[i].logic_position + n,
         NEW u, u = IF end > file[i].length THEN (-end) % ClusterData
                    ELSE fib[i].tail_cluster_unuse_byte
  PROVE  /\ WriteEnds(i, j, end, u)
         /\ u = ClusterData => Total(i) + j = 1
         /\ Store!Clusters(Max({file[i].length, end})) = Total(i) + j
<1> DEFINE T == Total(i)
           d == ClusterData
           len == file[i].length
           un == fib[i].tail_cluster_unuse_byte
           size == Max({len, end})
<1>2. WriteEnds(i, j, end, u)
  BY WriteSizes DEF StoreInv
<1>3. /\ i \in Used /\ len = T * d - un /\ T \in Nat \ {0} /\ un \in 0..d /\ d \in Nat \ {0}
      /\ len \in Nat
  BY HandleFacts, SizeFacts DEF StoreInv
<1>4. un = d => T = 1
  BY <1>3, InvFacts DEF StoreInv, FullInv
<1>5. /\ j \in Nat /\ end \in Nat /\ u \in 0..d /\ size = (T + j) * d - u /\ size \in Nat
  BY <1>2 DEF WriteEnds
<1> HIDE DEF T, d, len, un
<1>6. size = IF len >= end THEN len ELSE end
  BY <1>3, <1>5, MaxOfTwo
<1> HIDE DEF size
<1>7. CASE end > len
  <2>1. u < d
    <3> DEFINE neg == -end
    <3>1. u = neg % d /\ neg \in Int
      BY <1>5, <1>7 DEF len, d
    <3> HIDE DEF neg
    <3> QED BY <1>3, <3>1, DivType
  <2>2. T + j \in Nat \ {0} /\ u # d
    BY <1>3, <1>5, <2>1
  <2>3. Store!Clusters(size) = T + j
    BY <1>5, <2>2, FittingClusters DEF d
  <2> QED BY <1>2, <2>2, <2>3 DEF size, T, d, len
<1>8. CASE ~(end > len)
  <2>1. u = un /\ size = len
    BY <1>3, <1>5, <1>6, <1>8 DEF len, un
  <2>2. (T + j) * d = T * d + j * d /\ T * d \in Int /\ j * d \in Int
    BY <1>3, <1>5, ProductSum, ProductInt
  <2>3. j * d = 0
    <3>1. PICK x, y \in Int : x = T * d /\ y = j * d
      BY <2>2
    <3>2. x - un = x + y - un /\ un \in Int
      <4>1. (T + j) * d = x + y
        BY <2>2, <3>1
      <4>2. size = (x + y) - un /\ size = x - un
        BY <1>3, <1>5, <2>1, <3>1, <4>1
      <4> QED BY <1>3, <3>1, <4>2
    <3> QED BY <3>1, <3>2
  <2>4. j >= 1 => j * d >= 1 * d
    BY <1>3, <1>5, ProductOrder
  <2>5. j = 0
    BY <1>3, <1>5, <2>3, <2>4
  <2>6. Store!Clusters(size) = T
    BY <1>3, <1>4, <1>5, <2>1, FittingClusters DEF d
  <2>7. T + j = T
    BY <1>3, <2>5
  <2> QED BY <1>2, <1>4, <2>1, <2>6, <2>7 DEF size, T, len, un, d
<1> QED BY <1>7, <1>8

\* No byte of s but the k-th goes to byte b of cluster c.
Alone(all, from, s, k, c, b) ==
  \A l \in 1..Len(s) : l # k => LET q == from + l - 1 IN
    ~(all[(q \div ClusterData) + 1] = c /\ q % ClusterData = b)

LEMMA PutAt ==
  ASSUME NEW all, NEW from, NEW s \in Texts, Put(all, from, s), NEW k \in 1..Len(s),
         NEW c \in Cluster, NEW b \in 0..(ClusterData - 1), Alone(all, from, s, k, c, b),
         c = all[((from + k - 1) \div ClusterData) + 1], b = (from + k - 1) % ClusterData
  PROVE  data'[c][b] = s[k]
<1> DEFINE Here(x, y) == {l \in 1..Len(s) : LET q == from + l - 1 IN
                            all[(q \div ClusterData) + 1] = x /\ q % ClusterData = y}
<1>1. data' = [x \in Cluster |-> [y \in 0..(ClusterData - 1) |->
                 IF Here(x, y) = {} THEN data[x][y] ELSE s[Min(Here(x, y))]]]
  BY Zenon DEF Put
<1>2. Here(c, b) = {k}
  <2>1. k \in Here(c, b)
    OBVIOUS
  <2>2. \A l \in Here(c, b) : l = k
    BY DEF Alone
  <2> HIDE DEF Here
  <2> QED BY <2>1, <2>2
<1>3. Min({k}) = k
  <2>1. k \in Int
    BY TextFacts
  <2>2. Min({k, k}) = k
    BY <2>1, MinOfTwo
  <2> QED BY <2>2
<1> HIDE DEF Here
<1>4. data'[c][b] = IF Here(c, b) = {} THEN data[c][b] ELSE s[Min(Here(c, b))]
  BY <1>1
<1> QED BY <1>2, <1>3, <1>4

\* The chain after a write, as the bytes see it.
LEMMA WrittenChain ==
  ASSUME SfsInv, NEW i \in Opened, NEW s \in Texts, Written(i, s),
         NEW j, j = Missing(i, Len(s))
  PROVE  /\ Used' = Used /\ Total(i)' = Total(i) + j /\ j \in Nat
         /\ j <= mib.free_cluster_count
         /\ mib'.free_cluster_count = mib.free_cluster_count - j /\ mib'.fit = mib.fit
         /\ ChainOf(i)' \in [1..Total(i)' -> Cluster]
         /\ \A k \in 1..Total(i) : ChainOf(i)'[k] = ChainOf(i)[k]
         /\ \A k, l \in 1..Total(i)' : ChainOf(i)'[k] = ChainOf(i)'[l] => k = l
         /\ \A q \in Used \ {i} : fib'[q] = fib[q] /\ ChainOf(q)' = ChainOf(q)
         /\ \A q \in Used \ {i} : \A k \in 1..Total(q), l \in 1..Total(i)' :
              ChainOf(i)'[l] # ChainOf(q)[k]
<1>1. PICK u : u = IF file[i].logic_position + Len(s) > file[i].length
                   THEN (-(file[i].logic_position + Len(s))) % ClusterData
                   ELSE fib[i].tail_cluster_unuse_byte
  OBVIOUS
<1>2. Wrote(i, j, u)
  BY <1>1, WrittenChains
<1>3. /\ i \in Used /\ i \in Owners /\ Totals[i] = Total(i) /\ Chains[i] = ChainOf(i)
      /\ Total(i) \in Nat
  BY HandleFacts, InvFacts DEF Owners
<1>4. /\ Used' = Used /\ Owners' = Owners /\ Total(i)' = Total(i) + j
      /\ j \in 0..mib.free_cluster_count
      /\ \A k \in 1..Total(i) : ChainOf(i)'[k] = ChainOf(i)[k]
      /\ Placed(Owners', Totals', Chains')
      /\ \A q \in Used \ {i} : ChainOf(q)' = ChainOf(q) /\ Total(q)' = Total(q) /\ fib'[q] = fib[q]
      /\ mib' = [mib EXCEPT !.iFree_cluster = Grown(i, j).iFree,
                   !.free_cluster_count = @ - j]
  BY <1>2, <1>3 DEF Wrote
<1>5. \A o \in Owners : Totals'[o] = Total(o)' /\ Chains'[o] = ChainOf(o)'
  BY <1>4 DEF Totals, Chains
<1>6. ChainOf(i)' \in [1..Total(i)' -> Cluster]
  BY <1>3, <1>4, <1>5 DEF Placed
<1>7. \A k, l \in 1..Total(i)' : ChainOf(i)'[k] = ChainOf(i)'[l] => k = l
  <2> SUFFICES ASSUME NEW k \in 1..Total(i)', NEW l \in 1..Total(i)',
                      ChainOf(i)'[k] = ChainOf(i)'[l]
               PROVE  k = l
    OBVIOUS
  <2>1. Chains'[i][k] = Chains'[i][l] /\ k \in 1..Totals'[i] /\ l \in 1..Totals'[i]
        /\ i \in Owners'
    BY <1>3, <1>4, <1>5
  <2> QED BY <1>4, <2>1, PlacedApart
<1>8. ASSUME NEW q \in Used \ {i}, NEW k \in 1..Total(q), NEW l \in 1..Total(i)',
             ChainOf(i)'[l] = ChainOf(q)[k]
      PROVE  FALSE
  <2>1. q \in Owners
    BY DEF Owners
  <2>2. Chains'[i][l] = Chains'[q][k] /\ l \in 1..Totals'[i] /\ k \in 1..Totals'[q]
        /\ i \in Owners' /\ q \in Owners'
    BY <1>3, <1>4, <1>5, <1>8, <2>1
  <2>3. i = q
    BY <1>4, <2>2, PlacedApart
  <2> QED BY <2>3
<1>9. j \in Nat /\ j <= mib.free_cluster_count
  BY <1>4 DEF SfsInv, TypeOK
<1>10. mib'.free_cluster_count = mib.free_cluster_count - j /\ mib'.fit = mib.fit
  BY <1>4 DEF SfsInv, TypeOK
<1> QED BY <1>4, <1>6, <1>7, <1>8, <1>9, <1>10

\* The handle of a written file stays one, at the end of what was written.
LEMMA WrittenSize ==
  ASSUME SfsInv, SfsInv', NEW i \in Opened, NEW s \in Texts, Written(i, s),
         NEW end, end = file[i].logic_position + Len(s)
  PROVE  /\ i \in Opened' /\ file'[i].logic_position = end
         /\ Size(i)' = Max({Size(i), end})
         /\ \A k \in Fibs \ {i} : file'[k] = file[k]
<1> DEFINE h == [length |-> Max({file[i].length, end}), logic_position |-> end,
                 pIndex |-> ChainOf(i)']
<1>1. PICK n \in Nat \ {0} : n = Len(s)
  BY TextFacts
<1>2. /\ i \in Fibs /\ file[i].logic_position \in Nat /\ file[i].length = Size(i)
      /\ Size(i) \in Nat /\ Total(i) \in Nat /\ i \in Used
  BY HandleFacts, SizeFacts
<1>3. PICK j : j = Missing(i, Len(s))
  OBVIOUS
<1>4. ChainOf(i)' \in [1..Total(i)' -> Cluster] /\ Total(i)' \in Nat
  BY <1>2, <1>3, WrittenChain
<1>5. file' = [file EXCEPT ![i] = h]
  BY WrittenHandle
<1>6. h \in Handle /\ h.logic_position = end /\ h.length = Max({Size(i), end})
  <2>1. ChainOf(i)' \in Seq(Cluster)
    BY <1>4, SeqDef
  <2>2. end \in Nat
    BY <1>1, <1>2
  <2>3. Max({Size(i), end}) \in Nat
    BY <1>2, <2>2, MaxOfTwo
  <2> QED BY <1>2, <2>1, <2>2, <2>3 DEF Handle
<1> HIDE DEF h
<1>7. file'[i] = h /\ \A k \in Fibs \ {i} : file'[k] = file[k]
  BY <1>2, <1>5 DEF SfsInv, TypeOK
<1>8. i \in Opened'
  BY <1>2, <1>6, <1>7, NoneAssumption DEF Opened
<1>9. file'[i].length = Size(i)'
  BY <1>8 DEF SfsInv, TypeOK
<1> QED BY <1>6, <1>7, <1>8, <1>9

\* The bytes of a written file.
LEMMA WrittenFile ==
  ASSUME SfsInv, SfsInv', NEW i \in Opened, NEW s \in Texts, Written(i, s),
         NEW from, from = file[i].logic_position
  PROVE  Bytes(i)' = Store!Overwritten(Bytes(i), from, s)
<1> DEFINE d == ClusterData
           all == ChainOf(i)'
           T1 == Total(i)'
<1>1. PICK n \in Nat \ {0} : n = Len(s)
  BY TextFacts
<1>2. PICK j : j = Missing(i, Len(s))
  OBVIOUS
<1>3. /\ i \in Used /\ from \in Nat /\ from <= file[i].length /\ file[i].length = Size(i)
      /\ Size(i) \in Nat /\ Total(i) \in Nat /\ d \in Nat \ {0} /\ i \in Fibs
  BY HandleFacts, SizeFacts
<1>4. /\ T1 = Total(i) + j /\ j \in Nat /\ all \in [1..T1 -> Cluster]
      /\ \A k \in 1..Total(i) : all[k] = ChainOf(i)[k]
      /\ \A k, l \in 1..T1 : all[k] = all[l] => k = l
      /\ i \in Used'
  BY <1>2, <1>3, WrittenChain
<1>5. PICK end : end = from + Len(s)
  OBVIOUS
<1>6. /\ file' = [file EXCEPT ![i] =
                    [length |-> Max({file[i].length, end}), logic_position |-> end,
                     pIndex |-> all]]
      /\ Put(all, from, s)
  BY <1>5, WrittenHandle
<1>7. Size(i)' = Max({Size(i), end})
  BY <1>5, WrittenSize
<1>8. Max({Size(i), end}) = IF Size(i) >= end THEN Size(i) ELSE end
  BY <1>1, <1>3, <1>5, MaxOfTwo
<1>9. data' \in [Cluster -> [0..(d - 1) -> Byte]]
      /\ \A c \in Cluster, b \in 0..(d - 1) :
           Missed(all, from, s, c, b) => data'[c][b] = data[c][b]
  BY WrittenBytes
<1>10. \A k \in 1..n : LET q == from + k - 1 IN
         /\ q \in Nat /\ (q \div d) + 1 \in 1..T1 /\ q % d \in 0..(d - 1)
         /\ q = (q \div d) * d + (q % d)
  <2> SUFFICES ASSUME NEW k \in 1..n, NEW q, q = from + k - 1
               PROVE  /\ q \in Nat /\ (q \div d) + 1 \in 1..T1 /\ q % d \in 0..(d - 1)
                      /\ q = (q \div d) * d + (q % d)
    OBVIOUS
  <2> HIDE DEF all, T1
  <2> QED BY <1>1, <1>2, <1>4, WrittenPlaces
<1> HIDE DEF all, T1
\* A byte that s puts.
<1>11. ASSUME NEW k \in 1..Size(i)', k \in (from + 1)..(from + n)
       PROVE  data'[all[((k - 1) \div d) + 1]][(k - 1) % d] = s[k - from]
  <2> DEFINE m == k - from
             p == k - 1
             q == p \div d
             r == p % d
  <2>1. m \in 1..n /\ p = from + m - 1 /\ p \in Int
    <3>1. PICK x \in Nat : x = from
      BY <1>3
    <3>2. n \in Nat
      BY <1>1
    <3>3. k - x \in 1..n /\ k \in Int /\ k - 1 = x + (k - x) - 1
      <4>1. k \in (x + 1)..(x + n)
        BY <1>11, <3>1
      <4> QED BY <3>2, <4>1
    <3> QED BY <3>1, <3>3
  <2>2. p \in Nat /\ q + 1 \in 1..T1 /\ r \in 0..(d - 1) /\ p = q * d + r
    BY <1>10, <2>1
  <2> HIDE DEF m, p
  <2>3. ASSUME NEW l \in 1..n, l # m, NEW x, x = from + l - 1,
               all[(x \div d) + 1] = all[q + 1], x % d = r
        PROVE  FALSE
    <3> HIDE DEF q, r
    <3>1. x \in Nat /\ (x \div d) + 1 \in 1..T1 /\ x = (x \div d) * d + (x % d)
      BY <1>10, <2>3
    <3>2. (x \div d) + 1 = q + 1
      BY <1>4, <2>2, <2>3, <3>1
    <3>3. x \div d = q
      <4>1. x \div d \in Int /\ q \in Int
        <5>1. p \in Int /\ x \in Int
          BY <2>1, <3>1
        <5> QED BY <1>3, <5>1, DivType DEF q
      <4> QED BY <3>2, <4>1
    <3>4. x = p
      BY <2>2, <2>3, <3>1, <3>3
    <3>5. l = m
      BY <1>3, <2>1, <2>3, <3>4
    <3> QED BY <2>3, <3>5
  <2>4. PICK c \in Cluster : c = all[q + 1]
    BY <1>4, <2>2
  <2>5. data'[c][r] = s[m]
    <3> HIDE DEF q, r
    <3>1. \A l \in 1..n : l # m => LET x == from + l - 1 IN
            ~(all[(x \div d) + 1] = c /\ x % d = r)
      BY <2>3, <2>4
    <3>2. q = p \div d /\ r = p % d
      BY DEF q, r
    <3>3. c = all[(p \div d) + 1] /\ r \in 0..(d - 1) /\ p = from + m - 1
      BY <2>1, <2>2, <2>4, <3>2
    <3>4. m \in 1..Len(s) /\ Alone(all, from, s, m, c, r)
      BY <1>1, <2>1, <3>1, Zenon DEF Alone
    <3>5. c = all[((from + m - 1) \div d) + 1] /\ r = (from + m - 1) % d
      BY <3>2, <3>3
    <3>6. r \in 0..(ClusterData - 1) /\ c \in Cluster
      BY <2>4, <3>3
    <3>7. ASSUME NEW a, NEW y, NEW z, a = all, y = m, z = r PROVE data'[c][z] = s[y]
      <4>1. Put(a, from, s) /\ y \in 1..Len(s) /\ Alone(a, from, s, y, c, z)
        BY <1>6, <3>4, <3>7
      <4>2. /\ c \in Cluster /\ z \in 0..(ClusterData - 1)
            /\ c = a[((from + y - 1) \div ClusterData) + 1]
            /\ z = (from + y - 1) % ClusterData
        BY <3>5, <3>6, <3>7
      <4> QED BY <4>1, <4>2, PutAt
    <3> QED BY <3>7
  <2> QED BY <2>4, <2>5 DEF m, p
\* A byte that stays.
<1>12. ASSUME NEW k \in 1..Size(i)', k \notin (from + 1)..(from + n)
       PROVE  data'[all[((k - 1) \div d) + 1]][(k - 1) % d] = Bytes(i)[k]
  <2> DEFINE p == k - 1
             q == p \div d
             r == p % d
  <2>1. k \in 1..Size(i)
    BY <1>1, <1>3, <1>5, <1>7, <1>8, <1>12
  <2>2. p \in Nat /\ p < Size(i)
    BY <1>3, <2>1
  <2>3. q + 1 \in 1..Total(i) /\ r \in 0..(d - 1) /\ p = q * d + r
    BY <1>3, <2>2, PlaceFacts
  <2>4. q + 1 \in 1..T1 /\ all[q + 1] = ChainOf(i)[q + 1]
    BY <1>3, <1>4, <2>3
  <2>5. Bytes(i)[k] = data[ChainOf(i)[q + 1]][r]
    BY <2>1 DEF Bytes, ByteAt
  <2>6. ASSUME NEW l \in 1..n, NEW x, x = from + l - 1,
               all[(x \div d) + 1] = all[q + 1], x % d = r
        PROVE  FALSE
    <3> HIDE DEF q, r
    <3>1. x \in Nat /\ (x \div d) + 1 \in 1..T1 /\ x = (x \div d) * d + (x % d)
      BY <1>10, <2>6
    <3>2. (x \div d) + 1 = q + 1
      BY <1>4, <2>4, <2>6, <3>1
    <3>3. x \div d = q
      <4>1. x \div d \in Int /\ q \in Int
        BY <1>3, <2>2, <3>1, DivType DEF q
      <4> QED BY <3>2, <4>1
    <3>4. x = p
      BY <2>3, <2>6, <3>1, <3>3
    <3>5. k = from + l
      BY <1>3, <2>1, <2>6, <3>4
    <3>6. k \in (from + 1)..(from + n)
      <4>1. PICK y \in Nat : y = from
        BY <1>3
      <4>2. k \in (y + 1)..(y + n)
        BY <1>1, <2>6, <3>5, <4>1
      <4> QED BY <4>1, <4>2
    <3> QED BY <1>12, <3>6
  <2>7. PICK c \in Cluster : c = all[q + 1]
    BY <1>4, <2>4
  <2> HIDE DEF q, r
  <2>8. Missed(all, from, s, c, r)
    BY <1>1, <2>6, <2>7 DEF Missed
  <2>9. data'[c][r] = data[c][r]
    BY <1>9, <2>3, <2>8
  <2> QED BY <2>4, <2>5, <2>7, <2>9 DEF q, r
<1>13. Bytes(i)' = [k \in 1..Size(i)' |-> data'[all[((k - 1) \div d) + 1]][(k - 1) % d]]
  BY Zenon DEF Bytes, ByteAt, all
<1>14. Store!Overwritten(Bytes(i), from, s) =
         [k \in 1..Size(i)' |->
            IF k \in (from + 1)..(from + n) THEN s[k - from] ELSE Bytes(i)[k]]
  <2>1. Len(Bytes(i)) = Size(i)
    BY <1>3, BytesType
  <2>2. Store!Max({Len(Bytes(i)), from + Len(s)}) = Size(i)'
    BY <1>5, <1>7, <2>1, SameOperators
  <2> QED BY <1>1, <2>2, Zenon DEF Store!Overwritten
<1>15. ASSUME NEW k \in 1..Size(i)'
       PROVE  data'[all[((k - 1) \div d) + 1]][(k - 1) % d] =
                IF k \in (from + 1)..(from + n) THEN s[k - from] ELSE Bytes(i)[k]
  BY <1>11, <1>12, Zenon
<1> HIDE DEF d
<1> QED BY <1>13, <1>14, <1>15, Zenon

LEMMA WrittenSeen ==
  ASSUME StoreInv, SfsInv', NEW i \in Opened, NEW s \in Texts, Written(i, s),
         NEW f, f = fib[i].fname, NEW from, from = file[i].logic_position
  PROVE  /\ Contents' = [Contents EXCEPT ![f] = Store!Overwritten(Contents[f], from, s)]
         /\ Position' = [Position EXCEPT ![f] = from + Len(s)]
         /\ FullInv'
<1> USE DEF StoreInv
<1>1. PICK n \in Nat \ {0} : n = Len(s)
  BY TextFacts
<1>2. PICK j, end, u : /\ j = Missing(i, Len(s)) /\ end = from + Len(s)
                       /\ u = IF end > file[i].length THEN (-end) % ClusterData
                              ELSE fib[i].tail_cluster_unuse_byte
  OBVIOUS
<1>3. i \in Used /\ i \in Fibs /\ Total(i) \in Nat
  BY HandleFacts, SizeFacts
<1>4. /\ Used' = Used
      /\ \A q \in Used \ {i} : fib'[q] = fib[q] /\ ChainOf(q)' = ChainOf(q)
      /\ \A q \in Used \ {i} : \A k \in 1..Total(q), l \in 1..Total(i)' :
           ChainOf(i)'[l] # ChainOf(q)[k]
  BY <1>2, WrittenChain
<1>5. \A c \in Cluster : (\A k \in 1..Total(i)' : ChainOf(i)'[k] # c) => data'[c] = data[c]
  BY WrittenBytes
<1>6. /\ i \in Opened' /\ file'[i].logic_position = end
      /\ \A k \in Fibs \ {i} : file'[k] = file[k]
  BY <1>2, WrittenSize
<1>7. fib'[i].fname = f /\ fib'[i].total_cluster = Total(i) + j
      /\ fib'[i].tail_cluster_unuse_byte = u
  <2>1. Wrote(i, j, u)
    BY <1>2, WrittenChains
  <2>2. fib' = [fib EXCEPT ![i].iTail = Grown(i, j).iTail, ![i].total_cluster = @ + j,
                  ![i].tail_cluster_unuse_byte = u]
    BY <2>1 DEF Wrote
  <2>3. fib \in [Fibs -> [fname : Names \cup {NoName}, iHead : Links, iTail : Links,
                          total_cluster : Links, tail_cluster_unuse_byte : 0..ClusterData]]
    BY DEF SfsInv, TypeOK
  <2>4. Total(i) = fib[i].total_cluster
    BY <1>3, InvFacts
  <2> QED BY <1>3, <2>2, <2>3, <2>4
<1>8. ASSUME NEW q \in Used \ {i} PROVE Same(q)
  <2>1. Size(q)' = Size(q)
    BY <1>4, Zenon DEF Size
  <2>2. ChainOf(q) \in [1..Total(q) -> Cluster]
    BY InvFacts, FitFacts DEF Owners, RawInv, SfsInv
  <2>3. \A k \in 1..Total(q) : data'[ChainOf(q)[k]] = data[ChainOf(q)[k]]
    BY <1>4, <1>5, <2>2
  <2>4. Bytes(q)' = Bytes(q)
    BY <1>4, <2>1, <2>3, SameBytes
  <2>5. q \in Fibs /\ file'[q] = file[q]
    BY <1>6 DEF Used
  <2>6. q \in Opened' <=> q \in Opened
    BY <2>5 DEF Opened
  <2> QED BY <1>4, <2>4, <2>5, <2>6 DEF Same
<1>9. f \in Names /\ Contents[f] = Bytes(i)
  BY <1>3, SfsSeen DEF FilesSeen
<1>10. /\ Contents' = [Contents EXCEPT ![f] = Contents'[f]]
       /\ Position' = [Position EXCEPT ![f] = Position'[f]]
  <2>1. \A q \in Used : fib[q].fname # f => Same(q)
    BY <1>8
  <2>2. \A q \in Used' : fib'[q].fname # f => Same(q)
    BY <1>4, <1>7, <1>8
  <2> QED BY <1>9, <2>1, <2>2, OthersSame
<1>11. Contents'[f] = Bytes(i)' /\ Position'[f] = end
  BY <1>3, <1>4, <1>6, <1>7, SeenAfter DEF FilesSeen
<1>12. Bytes(i)' = Store!Overwritten(Contents[f], from, s)
  BY <1>9, WrittenFile
<1>13. FullInv'
  <2>1. u = ClusterData => Total(i) + j = 1
    <3>1. j = Missing(i, n) /\ end = file[i].logic_position + n
      BY <1>1, <1>2
    <3> QED BY <1>2, <3>1, WriteClusters
  <2> QED BY <1>4, <1>7, <2>1 DEF FullInv
<1> QED BY <1>2, <1>10, <1>11, <1>12, <1>13

LEMMA WriteSeen ==
  ASSUME StoreInv, SfsInv', NEW i \in Fibs, NEW s \in Texts, Write(i, s)
  PROVE  Store!Write(fib[i].fname, s)
<1> USE DEF StoreInv
<1> DEFINE f == fib[i].fname
           from == file[i].logic_position
           new == Store!Overwritten(Contents[f], from, s)
           more == Store!Clusters(Len(new)) - Store!Clusters(Len(Contents[f]))
<1>1. i \in Opened
  BY DEF Write
<1>2. PICK n \in Nat \ {0} : n = Len(s)
  BY TextFacts
<1>3. PICK j : j = Missing(i, Len(s))
  OBVIOUS
<1>4. PICK end, u : /\ end = from + n
                    /\ u = IF end > file[i].length THEN (-end) % ClusterData
                           ELSE fib[i].tail_cluster_unuse_byte
  OBVIOUS
<1>5. /\ i \in Used /\ f \in Store!Opened /\ Position[f] = from /\ Contents[f] = Bytes(i)
      /\ Len(Bytes(i)) = Size(i) /\ Size(i) = file[i].length /\ Total(i) \in Nat
  BY <1>1, HandleFacts, FileSeen, BytesType, SizeFacts
<1>6. WriteEnds(i, j, end, u) /\ Store!Clusters(Max({file[i].length, end})) = Total(i) + j
  <2>1. j = Missing(i, n)
    BY <1>2, <1>3
  <2> QED BY <1>1, <1>4, <2>1, WriteClusters
<1>7. Len(new) = Max({file[i].length, end})
  <2> DEFINE size == Max({file[i].length, end})
  <2>1. size \in Nat
    BY <1>6 DEF WriteEnds
  <2>2. Store!Max({Len(Contents[f]), from + Len(s)}) = size
    BY <1>2, <1>4, <1>5, SameOperators
  <2> HIDE DEF size
  <2>3. new = [k \in 1..size |-> IF k \in (from + 1)..(from + Len(s)) THEN s[k - from]
                                 ELSE Contents[f][k]]
    BY <2>2, Zenon DEF Store!Overwritten
  <2> HIDE DEF new
  <2>4. Len(new) = size
    BY <2>1, <2>3
  <2> QED BY <2>4 DEF size
<1>8. more = j
  <2>1. Store!Clusters(Len(Contents[f])) = Total(i)
    BY <1>5, FileClusters
  <2>2. Store!Clusters(Len(new)) = Total(i) + j /\ j \in Nat
    BY <1>6, <1>7 DEF WriteEnds
  <2> HIDE DEF new
  <2> QED BY <1>5, <2>1, <2>2
<1>9. CASE j > mib.free_cluster_count /\ Refuse("failed")
  <2>1. Store!Refuse("failed") /\ more > mib.free_cluster_count
    BY <1>8, <1>9, RefuseSeen
  <2> QED BY <1>5, <2>1 DEF Store!Write
<1>10. CASE Written(i, s) /\ Done
  <2>1. /\ Contents' = [Contents EXCEPT ![f] = new]
        /\ Position' = [Position EXCEPT ![f] = from + Len(s)]
    BY <1>1, <1>10, WrittenSeen
  <2>2. /\ more <= mib.free_cluster_count
        /\ mib'.free_cluster_count = mib.free_cluster_count - more /\ mib'.fit = mib.fit
    BY <1>1, <1>3, <1>8, <1>10, WrittenChain
  <2> HIDE DEF new, more
  <2>3. Store!Done
    BY <1>10, DoneSeen
  <2> QED BY <1>5, <2>1, <2>2, <2>3 DEF Store!Write, new, more
<1>11. (j > mib.free_cluster_count /\ Refuse("failed")) \/ (Written(i, s) /\ Done)
  BY <1>3, Zenon DEF Write, Written
<1> QED BY <1>9, <1>10, <1>11

----------------------------------------------------------------------------
\* Every call is one of FileStore's.

LEMMA StillFull ==
  ASSUME StoreInv, UNCHANGED disk
  PROVE  FullInv'
<1>1. fib' = fib
  BY DEF disk
<1>2. Used' = Used
  BY <1>1 DEF Used
<1> QED BY <1>1, <1>2 DEF StoreInv, FullInv

LEMMA StoreStep ==
  ASSUME StoreInv, SfsInv', [Next]_vars
  PROVE  FullInv' /\ [Store!Next]_(Store!vars)
<1> USE DEF StoreInv
<1>1. CASE UNCHANGED vars
  <2>1. UNCHANGED <<disk, file>> /\ reply' = reply
    BY <1>1 DEF vars
  <2> QED BY <2>1, StillFull, StillSeen DEF Store!vars
<1>2. CASE Format
  BY <1>2, FormatSeen DEF Store!Next
<1>3. CASE PowerCycle
  BY <1>3, PowerSeen DEF Store!Next
<1>4. ASSUME NEW f \in Names, Create(f) PROVE FullInv' /\ Store!Next
  <2>1. FullInv'
    BY <1>4, CreateCases, CreatedSeen, StillFull
  <2> QED BY <1>4, <2>1, CreateSeen DEF Store!Next
<1>5. ASSUME NEW f \in Names, Delete(f) PROVE FullInv' /\ Store!Next
  <2>1. FullInv'
    <3>1. CASE UNCHANGED <<disk, file>>
      BY <3>1, StillFull
    <3>2. ASSUME NEW i \in Named(f), Deleted(i) PROVE FullInv'
      <4>1. PICK g : g = fib[i].fname
        OBVIOUS
      <4> QED BY <3>2, <4>1, DeletedSeen
    <3> QED BY <1>5, <3>1, <3>2, DeleteCases
  <2> QED BY <1>5, <2>1, DeleteSeen DEF Store!Next
<1>6. ASSUME NEW f \in Names, Open(f) PROVE FullInv' /\ Store!Next
  <2>1. UNCHANGED disk
    BY <1>6 DEF Open, Refuse
  <2> QED BY <1>6, <2>1, OpenSeen, StillFull DEF Store!Next
<1>7. ASSUME NEW i \in Fibs, Close(i) PROVE FullInv' /\ Store!Next
  <2>1. UNCHANGED disk /\ fib[i].fname \in Names
    BY <1>7, HandleFacts, SfsSeen DEF Close, FilesSeen
  <2> QED BY <1>7, <2>1, CloseSeen, StillFull DEF Store!Next
<1>8. ASSUME NEW i \in Fibs, NEW n \in Lengths, Read(i, n) PROVE FullInv' /\ Store!Next
  <2>1. UNCHANGED disk /\ i \in Opened
    BY <1>8 DEF Read
  <2>2. fib[i].fname \in Names
    BY <2>1, HandleFacts, SfsSeen DEF FilesSeen
  <2> QED BY <1>8, <2>1, <2>2, ReadSeen, StillFull DEF Store!Next
<1>9. ASSUME NEW i \in Fibs, NEW s \in Texts, Write(i, s) PROVE FullInv' /\ Store!Next
  <2>1. i \in Opened /\ (Written(i, s) \/ UNCHANGED <<disk, file>>)
    BY <1>9, WriteCases
  <2>2. fib[i].fname \in Names
    BY <2>1, HandleFacts, SfsSeen DEF FilesSeen
  <2>3. FullInv'
    <3>1. CASE UNCHANGED <<disk, file>>
      BY <3>1, StillFull
    <3>2. CASE Written(i, s)
      <4>1. PICK f, from : f = fib[i].fname /\ from = file[i].logic_position
        OBVIOUS
      <4> QED BY <2>1, <3>2, <4>1, WrittenSeen
    <3> QED BY <2>1, <3>1, <3>2
  <2> QED BY <1>9, <2>2, <2>3, WriteSeen DEF Store!Next
<1>10. ASSUME NEW i \in Fibs, NEW p \in Positions, Seek(i, p) PROVE FullInv' /\ Store!Next
  <2>1. UNCHANGED disk /\ i \in Opened
    BY <1>10 DEF Seek, Refuse
  <2>2. fib[i].fname \in Names
    BY <2>1, HandleFacts, SfsSeen DEF FilesSeen
  <2> QED BY <1>10, <2>1, <2>2, SeekSeen, StillFull DEF Store!Next
<1> QED BY <1>1, <1>2, <1>3, <1>4, <1>5, <1>6, <1>7, <1>8, <1>9, <1>10 DEF Next

\* The file system answers every call as FileStore does, whatever the number and the
\* size of the clusters: a file reads as what was written to it, and a call is refused
\* only where FileStore refuses it.
THEOREM StoreCorrect == Spec => StoreRefined
<1>1. Init => StoreInv /\ Store!Init
  BY InitHolds, InitSeen DEF StoreInv
<1>2. StoreInv /\ SfsInv' /\ [Next]_vars => FullInv' /\ [Store!Next]_(Store!vars)
  BY StoreStep
<1>3. Spec => []SfsInv
  BY InvHolds
<1> QED BY <1>1, <1>2, <1>3, PTL DEF Spec, StoreInv, StoreRefined, Store!Spec
=============================================================================
