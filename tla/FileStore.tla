----------------------------- MODULE FileStore -----------------------------
\* What a user of the RAM file system relies on: files are sequences of bytes,
\* a handle has a position in its file, and a call is refused exactly when the
\* directory or the disk is full, whatever was created and deleted before. Sfs is
\* shown to implement this.

EXTENDS Integers, Sequences, FiniteSetsExt

CONSTANTS Names, Texts, NumFib, NumCluster, ClusterData, Lengths, Positions, None

VARIABLES
  contents,   \* bytes of each file, or None
  position,   \* of the handle of each file, or None
  free,       \* clusters that no file takes
  ready,      \* has the disk been formatted?
  reply       \* result and value of the last call

vars == <<contents, position, free, ready, reply>>

Nothing == [result |-> "ok", value |-> <<>>]

Init ==
  /\ contents = [f \in Names |-> None]
  /\ position = [f \in Names |-> None]
  /\ free = 0
  /\ ready = FALSE
  /\ reply = Nothing

Exist == {f \in Names : contents[f] # None}

Opened == {f \in Names : position[f] # None}

\* An empty file has a cluster, too.
Clusters(n) == IF n = 0 THEN 1 ELSE (n + ClusterData - 1) \div ClusterData

Room == ready /\ Cardinality(Exist) < NumFib /\ free > 0

Running == reply.result # "killed"

Answer(result, value) ==
  Running /\ reply' = [result |-> result, value |-> value]

Done == Answer("ok", <<>>)

Refuse(why) == Answer(why, <<>>) /\ UNCHANGED <<position, free, ready, contents>>

\* In each action the conjuncts on reply and position come first: where FileStore is
\* refined, they are cheaper than those on contents.

Format ==
  /\ Opened = {}
  /\ Done
  /\ UNCHANGED position
  /\ free' = NumCluster
  /\ ready'
  /\ contents' = [f \in Names |-> None]

Create(f) ==
  \/ /\ Done
     /\ UNCHANGED <<position, ready>>
     /\ Room /\ f \notin Exist
     /\ free' = free - 1
     /\ contents' = [contents EXCEPT ![f] = <<>>]
  \/ Refuse("device error") /\ ~Room
  \/ Refuse("bad input") /\ Room /\ f \in Exist

Delete(f) ==
  \/ /\ Done
     /\ UNCHANGED <<position, ready>>
     /\ ready /\ f \notin Opened
     /\ free' = IF f \in Exist THEN free + Clusters(Len(contents[f])) ELSE free
     /\ contents' = [contents EXCEPT ![f] = None]
  \/ Refuse("failed") /\ ready /\ f \in Opened
  \/ Refuse("killed") /\ ~ready

Open(f) ==
  \/ /\ Done
     /\ ready /\ f \notin Opened
     /\ position' = [position EXCEPT ![f] = 0]
     /\ f \in Exist
     /\ UNCHANGED <<contents, free, ready>>
  \/ Refuse("failed") /\ ready /\ f \notin Exist \ Opened
  \/ Refuse("killed") /\ ~ready

Close(f) ==
  /\ f \in Opened
  /\ Done
  /\ position' = [position EXCEPT ![f] = None]
  /\ UNCHANGED <<contents, free, ready>>

Read(f, n) ==
  /\ f \in Opened
  /\ reply'.result = "ok"
  /\ position'[f] - position[f] \in 0..n
  /\ LET from == position[f]
         to   == Min({from + n, Len(contents[f])})
     IN  /\ Answer("ok", SubSeq(contents[f], from + 1, to))
         /\ position' = [position EXCEPT ![f] = to]
  /\ UNCHANGED <<contents, free, ready>>

\* Bytes from the position on are replaced, and the file grows if it must.
Overwritten(old, from, s) ==
  [k \in 1..Max({Len(old), from + Len(s)}) |->
     IF k \in (from + 1)..(from + Len(s)) THEN s[k - from] ELSE old[k]]

Write(f, s) ==
  /\ f \in Opened
  /\ LET from == position[f]
         new  == Overwritten(contents[f], from, s)
         more == Clusters(Len(new)) - Clusters(Len(contents[f]))
     IN  \/ /\ position' = [position EXCEPT ![f] = from + Len(s)]
            /\ Done
            /\ more <= free
            /\ free' = free - more
            /\ contents' = [contents EXCEPT ![f] = new]
            /\ UNCHANGED ready
         \/ Refuse("failed") /\ more > free

Seek(f, p) ==
  /\ f \in Opened
  /\ \/ /\ Done
        /\ position' = [position EXCEPT ![f] = p]
        /\ p <= Len(contents[f])
        /\ UNCHANGED <<contents, free, ready>>
     \/ Refuse("failed") /\ p > Len(contents[f])

\* The disk is RAM.
PowerCycle ==
  /\ contents' = [f \in Names |-> None]
  /\ position' = [f \in Names |-> None]
  /\ free' = 0
  /\ ready' = FALSE
  /\ reply' = Nothing

Next ==
  \/ Format \/ PowerCycle
  \/ \E f \in Names :
       \/ Create(f) \/ Delete(f) \/ Open(f) \/ Close(f)
       \/ \E n \in Lengths : Read(f, n)
       \/ \E s \in Texts : Write(f, s)
       \/ \E p \in Positions : Seek(f, p)

Spec == Init /\ [][Next]_vars
=============================================================================
