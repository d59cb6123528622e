-------------------------------- MODULE Sfs --------------------------------
\* The RAM file system (SFS/sfs.c, SFS/vfs.c): a directory of file blocks and an
\* array of clusters, each file a chain of clusters linked both ways, and the free
\* clusters another one. Cluster 0 holds the memory header and the directory, so
\* that link 0 means "none". A call runs to its end, one at a time.

EXTENDS Integers, Sequences, FiniteSetsExt, Functions

CONSTANTS
  Names,        \* file names in use
  Texts,        \* bound: sequences of bytes a program writes
  Zero,         \* an erased byte
  NoName,       \* name of a file block that is not in use
  None,         \* no file, no handle
  NumFib,       \* file blocks (FIB) of the directory
  NumCluster,   \* clusters beside cluster 0
  ClusterData,  \* SFS_CLUSTER_DATA_BYTE
  Lengths,      \* bound: lengths of the reads
  Positions     \* bound: positions of the seeks

ASSUME SfsAssumption ==
  /\ NumFib \in Nat \ {0} /\ NumCluster \in Nat \ {0}
  /\ ClusterData \in Nat \ {0} /\ Lengths \subseteq Nat \ {0} /\ Positions \subseteq Nat
  /\ \A s \in Texts : s \in Seq(Range(s)) \ {<<>>} /\ Zero \notin Range(s)
  /\ NoName \notin Names

Fibs == 1..NumFib

Cluster == 1..NumCluster

Links == 0..NumCluster

Byte == {Zero} \cup UNION {Range(s) : s \in Texts}

\* plFILE of an open file: its length, the position in it, and its clusters.
Handle == [length : Nat, logic_position : Nat, pIndex : Seq(Cluster)]

\* None is the null pointer.
ASSUME NoneAssumption == None \notin Handle \cup Seq(Byte) \cup Nat

VARIABLES
  mib,          \* MEM_INFO: fit (is FIT set?), counts of free blocks and clusters, iFree_cluster
  fib,          \* FIT, the directory
  iPre, iNext,  \* links of pBLOCK; iPre[0] lies over FS_type and cluster_size of MEM_INFO
  data,         \* bytes of the clusters
  file,         \* plFILE: the handle of each file block, or None
  reply         \* result and value of the last call

disk == <<mib, fib, iPre, iNext, data>>

vars == <<disk, file, reply>>

\* FS_type in the low byte, cluster_size (K bytes) in the high one.
Header == 1 + 256 * 2

NoFib == [fname |-> NoName, iHead |-> 0, iTail |-> 0, total_cluster |-> 0,
          tail_cluster_unuse_byte |-> 0]

EmptyCluster == [b \in 0..(ClusterData - 1) |-> Zero]

Nothing == [result |-> "ok", value |-> <<>>]

\* SFS_DISK is zero when the SP starts, and SFS_init does not format it.
RawDisk ==
  [mib |-> [fit |-> FALSE, free_FIB_count |-> 0, free_cluster_count |-> 0,
            iFree_cluster |-> 0],
   fib |-> [i \in Fibs |-> NoFib],
   iPre |-> [c \in Links |-> 0],
   iNext |-> [c \in Links |-> 0],
   data |-> [c \in Cluster |-> EmptyCluster]]

Init ==
  /\ mib = RawDisk.mib /\ fib = RawDisk.fib
  /\ iPre = RawDisk.iPre /\ iNext = RawDisk.iNext /\ data = RawDisk.data
  /\ file = [i \in Fibs |-> None]
  /\ reply = Nothing

----------------------------------------------------------------------------
\* Helpers

Opened == {i \in Fibs : file[i] # None}

Used == {i \in Fibs : fib[i].total_cluster # 0}

Named(f) == {i \in Used : fib[i].fname = f}

\* The first len clusters from head on; 0 behind the end.
Chain(next, head, len) ==
  LET c[k \in 1..len] ==
        IF k = 1 THEN head
        ELSE LET pre == c[k - 1] IN IF pre = 0 THEN 0 ELSE next[pre]
  IN  c

\* Length of a file by its file block.
Size(i) ==
  (fib[i].total_cluster - 1) * ClusterData
    + (ClusterData - fib[i].tail_cluster_unuse_byte)

\* Byte p of a file whose clusters are given.
ByteAt(clusters, p) ==
  data[clusters[(p \div ClusterData) + 1]][p % ClusterData]

\* The SP is gone after a segmentation fault, until it is started again.
Running == reply.result # "killed"

Answer(result, value) ==
  Running /\ reply' = [result |-> result, value |-> value]

Done == Answer("ok", <<>>)

Refuse(why) == Answer(why, <<>>) /\ UNCHANGED <<disk, file>>

----------------------------------------------------------------------------
\* Calls on the disk

\* A program formats with no file open: the handles would not be told.
Format ==
  /\ Opened = {}
  /\ mib' = [fit |-> TRUE, free_FIB_count |-> NumFib,
             free_cluster_count |-> NumCluster, iFree_cluster |-> 1]
  /\ fib' = [i \in Fibs |-> [NoFib EXCEPT !.tail_cluster_unuse_byte = ClusterData]]
  /\ iPre' = [c \in Links |-> IF c = 0 THEN Header ELSE c - 1]
  /\ iNext' = [c \in Links |-> IF c \in {0, NumCluster} THEN 0 ELSE c + 1]
  /\ data' = [c \in Cluster |-> EmptyCluster]
  /\ Done
  /\ UNCHANGED file

\* Free entries of the directory are found by their cluster count.
FreeFib == Min(Fibs \ Used)

Create(f) ==
  LET room == mib.free_FIB_count # 0 /\ mib.free_cluster_count # 0
  IN  \/ ~room /\ Refuse("device error")
      \/ room /\ Named(f) # {} /\ Refuse("bad input")
      \/ /\ room /\ Named(f) = {}
         /\ LET head == mib.iFree_cluster
                rest == iNext[head]
            IN  /\ fib' = [fib EXCEPT ![FreeFib] =
                     [fname |-> f, iHead |-> head, iTail |-> head, total_cluster |-> 1,
                      tail_cluster_unuse_byte |-> ClusterData]]
                /\ iNext' = [iNext EXCEPT ![head] = 0]
                /\ iPre' = [iPre EXCEPT ![rest] = 0]
                /\ mib' = [mib EXCEPT !.free_FIB_count = @ - 1,
                             !.iFree_cluster = rest, !.free_cluster_count = @ - 1]
         /\ Done
         /\ UNCHANGED <<data, file>>

\* Mutants: the first free cluster keeps its back link of none, or only the head is erased.
FreeUnlinked(i) ==
  LET head == fib[i].iHead
      tail == fib[i].iTail
      all  == {Chain(iNext, head, NumCluster)[k] : k \in Cluster}
  IN  /\ data' = [c \in Cluster |-> IF c \in all THEN EmptyCluster ELSE data[c]]
      /\ iNext' = [iNext EXCEPT ![tail] = mib.iFree_cluster]
      /\ UNCHANGED iPre
      /\ mib' = [mib EXCEPT !.iFree_cluster = head, !.free_FIB_count = @ + 1,
                   !.free_cluster_count = @ + fib[i].total_cluster]

FreeHeadErased(i) ==
  LET head == fib[i].iHead
      tail == fib[i].iTail
  IN  /\ data' = [data EXCEPT ![head] = EmptyCluster]
      /\ iNext' = [iNext EXCEPT ![tail] = mib.iFree_cluster]
      /\ iPre' = [iPre EXCEPT ![mib.iFree_cluster] = tail]
      /\ mib' = [mib EXCEPT !.iFree_cluster = head, !.free_FIB_count = @ + 1,
                   !.free_cluster_count = @ + fib[i].total_cluster]

\* The chain is erased to its end, and put before the free one.
Free(i) ==
  LET head == fib[i].iHead
      tail == fib[i].iTail
      all  == {Chain(iNext, head, NumCluster)[k] : k \in Cluster}
  IN  /\ data' = [c \in Cluster |-> IF c \in all THEN EmptyCluster ELSE data[c]]
      /\ iNext' = [iNext EXCEPT ![tail] = mib.iFree_cluster]
      /\ iPre' = [iPre EXCEPT ![mib.iFree_cluster] = tail]
      /\ mib' = [mib EXCEPT !.iFree_cluster = head, !.free_FIB_count = @ + 1,
                   !.free_cluster_count = @ + fib[i].total_cluster]

\* Without FIT, the search for a file reads through a null pointer.
Delete(f) ==
  \/ ~mib.fit /\ Refuse("killed")
  \/ mib.fit /\ Named(f) = {} /\ Done /\ UNCHANGED <<disk, file>>
  \/ \E i \in Named(f) :
       \/ i \in Opened /\ Refuse("failed")
       \/ /\ i \notin Opened
          /\ Free(i)
          /\ fib' = [fib EXCEPT ![i] =
                       [NoFib EXCEPT !.tail_cluster_unuse_byte = ClusterData]]
          /\ Done
          /\ UNCHANGED file

----------------------------------------------------------------------------
\* Calls on a handle

Open(f) ==
  \/ ~mib.fit /\ Refuse("killed")
  \/ mib.fit /\ Named(f) = {} /\ Refuse("failed")
  \/ \E i \in Named(f) :
       \/ i \in Opened /\ Refuse("failed")
       \/ /\ i \notin Opened
          /\ file' = [file EXCEPT ![i] =
               [length |-> Size(i), logic_position |-> 0,
                pIndex |-> Chain(iNext, fib[i].iHead, fib[i].total_cluster)]]
          /\ Done
          /\ UNCHANGED disk

Close(i) ==
  /\ i \in Opened
  /\ file' = [file EXCEPT ![i] = None]
  /\ Done
  /\ UNCHANGED disk

Read(i, n) ==
  /\ i \in Opened
  /\ LET h   == file[i]
         len == Min({n, h.length - h.logic_position})
     IN  /\ Answer("ok", [k \in 1..len |-> ByteAt(h.pIndex, h.logic_position + k - 1)])
         /\ file' = [file EXCEPT ![i].logic_position = @ + len]
  /\ UNCHANGED disk

\* Mutant: the bytes free in the tail are not counted.
MissingTailUnused(i, n) ==
  LET h    == file[i]
      more == n - (h.length - h.logic_position)
  IN  IF h.logic_position + n > Len(h.pIndex) * ClusterData
      THEN (more + ClusterData - 1) \div ClusterData
      ELSE 0

\* Clusters that a write of n bytes must add.
Missing(i, n) ==
  LET h    == file[i]
      more == n - (h.length - h.logic_position) - fib[i].tail_cluster_unuse_byte
  IN  IF h.logic_position + n > Len(h.pIndex) * ClusterData
      THEN (more + ClusterData - 1) \div ClusterData
      ELSE 0

\* Mutant: the back link of the first free cluster is reset without asking whether one
\* is left, as SFS_fcreate does.
GrownUnasked(i, j) ==
  LET first == mib.iFree_cluster
      last  == Chain(iNext, first, j)[j]
      rest  == iNext[last]
      pre   == [iPre EXCEPT ![first] = fib[i].iTail]
  IN  IF j = 0
      THEN [iPre |-> iPre, iNext |-> iNext, iTail |-> fib[i].iTail, iFree |-> first]
      ELSE [iPre |-> [pre EXCEPT ![rest] = 0],
            iNext |-> [iNext EXCEPT ![fib[i].iTail] = first, ![last] = 0],
            iTail |-> last, iFree |-> rest]

\* The first j free clusters are put behind the tail of a file. Its new tail is read
\* from the back link of the first cluster that stays free.
Grown(i, j) ==
  LET first == mib.iFree_cluster
      last  == Chain(iNext, first, j)[j]
      rest  == iNext[last]
      pre   == [iPre EXCEPT ![first] = fib[i].iTail]
      tail  == IF rest # 0 THEN pre[rest] ELSE last
  IN  IF j = 0
      THEN [iPre |-> iPre, iNext |-> iNext, iTail |-> fib[i].iTail, iFree |-> first]
      ELSE [iPre |-> IF rest # 0 THEN [pre EXCEPT ![rest] = 0] ELSE pre,
            iNext |-> [iNext EXCEPT ![fib[i].iTail] = first, ![tail] = 0],
            iTail |-> tail, iFree |-> rest]

\* The bytes s are put at position from of a file whose clusters are given.
Put(clusters, from, s) ==
  data' = [c \in Cluster |-> [b \in 0..(ClusterData - 1) |->
    LET here == {k \in 1..Len(s) : LET p == from + k - 1 IN
                   clusters[(p \div ClusterData) + 1] = c /\ p % ClusterData = b}
    IN  IF here = {} THEN data[c][b] ELSE s[Min(here)]]]

Write(i, s) ==
  /\ i \in Opened
  /\ LET h    == file[i]
         end  == h.logic_position + Len(s)
         j    == Missing(i, Len(s))
         new  == Grown(i, j)
         size == Len(h.pIndex) + j
         all  == IF j = 0 THEN h.pIndex ELSE Chain(new.iNext, fib[i].iHead, size)
     IN  \/ j > mib.free_cluster_count /\ Refuse("failed")
         \/ /\ j <= mib.free_cluster_count
            /\ iPre' = new.iPre /\ iNext' = new.iNext
            /\ mib' = [mib EXCEPT !.iFree_cluster = new.iFree,
                         !.free_cluster_count = @ - j]
            /\ fib' = [fib EXCEPT ![i].iTail = new.iTail, ![i].total_cluster = @ + j,
                         ![i].tail_cluster_unuse_byte =
                           IF end > h.length THEN (-end) % ClusterData ELSE @]
            /\ file' = [file EXCEPT ![i] =
                 [length |-> Max({h.length, end}), logic_position |-> end,
                  pIndex |-> all]]
            /\ Put(all, h.logic_position, s)
            /\ Done

\* Mutant: the length of the file is not asked.
SeekAnywhere(i, p) ==
  /\ i \in Opened
  /\ file' = [file EXCEPT ![i].logic_position = p]
  /\ Done
  /\ UNCHANGED disk

Seek(i, p) ==
  /\ i \in Opened
  /\ \/ p > file[i].length /\ Refuse("failed")
     \/ /\ p <= file[i].length
        /\ file' = [file EXCEPT ![i].logic_position = p]
        /\ Done
        /\ UNCHANGED disk

\* The disk is in RAM: a restart of the SP leaves it raw.
PowerCycle ==
  /\ mib' = RawDisk.mib /\ fib' = RawDisk.fib
  /\ iPre' = RawDisk.iPre /\ iNext' = RawDisk.iNext /\ data' = RawDisk.data
  /\ file' = [i \in Fibs |-> None]
  /\ reply' = Nothing

Next ==
  \/ Format \/ PowerCycle
  \/ \E f \in Names : Create(f) \/ Delete(f) \/ Open(f)
  \/ \E i \in Fibs :
       \/ Close(i)
       \/ \E n \in Lengths : Read(i, n)
       \/ \E s \in Texts : Write(i, s)
       \/ \E p \in Positions : Seek(i, p)

Spec == Init /\ [][Next]_vars

----------------------------------------------------------------------------
\* Properties

\* Links stay within the disk, counts within their limits, positions within files.
TypeOK ==
  /\ mib \in [fit : BOOLEAN, free_FIB_count : 0..NumFib,
              free_cluster_count : Links, iFree_cluster : Links]
  /\ fib \in [Fibs -> [fname : Names \cup {NoName}, iHead : Links, iTail : Links,
                       total_cluster : Links, tail_cluster_unuse_byte : 0..ClusterData]]
  /\ iNext \in [Links -> Links]
  /\ iPre \in [Links -> Links \cup {Header}] /\ \A c \in Cluster : iPre[c] \in Links
  /\ data \in [Cluster -> [0..(ClusterData - 1) -> Byte]]
  /\ file \in [Fibs -> Handle \cup {None}]
  /\ \A i \in Opened :
       /\ file[i].length = Size(i)
       /\ file[i].logic_position \in 0..file[i].length

\* Who has a chain of clusters: the files, and the free list.
FreeList == 0

Owners == Used \cup {FreeList}

Total(o) == IF o = FreeList THEN mib.free_cluster_count ELSE fib[o].total_cluster

First(o) == IF o = FreeList THEN mib.iFree_cluster ELSE fib[o].iHead

ChainOf(o) == Chain(iNext, First(o), Total(o))

\* The chain is linked both ways and ends after as many clusters as are counted.
Linked(o) ==
  LET c == ChainOf(o)
  IN  /\ \A k \in 1..Total(o) : c[k] # 0
      /\ \A k \in 1..(Total(o) - 1) : iPre[c[k + 1]] = c[k]
      /\ IF Total(o) = 0 THEN First(o) = 0 ELSE iNext[c[Total(o)]] = 0

\* Whatever is created, grown and deleted, each cluster is in one chain, of one file or
\* free, the counts are the lengths of the chains, and the back links, from which a
\* write takes the new tail, are those of the chains (SFS_fcreate, SFS_fdelete and
\* SFS_fwrite each relink a part of them).
ClustersKept ==
  mib.fit =>
    /\ \A o \in Owners : Linked(o)
    /\ \A i \in Used : ChainOf(i)[Total(i)] = fib[i].iTail
    /\ \A c \in Cluster : \E o \in Owners : \E k \in 1..Total(o) : ChainOf(o)[k] = c
    /\ \A o, p \in Owners : \A k \in 1..Total(o), l \in 1..Total(p) :
         ChainOf(o)[k] = ChainOf(p)[l] => o = p /\ k = l
    /\ mib.free_FIB_count + Cardinality(Used) = NumFib

\* A free cluster holds nothing of the file it belonged to (SFS_eraser_cluster_data), and
\* neither does the tail of a file behind its last byte.
Erased ==
  /\ \A k \in 1..Total(FreeList) : data[ChainOf(FreeList)[k]] = EmptyCluster
  /\ \A i \in Used : \A b \in 0..(ClusterData - 1) :
       b >= ClusterData - fib[i].tail_cluster_unuse_byte => data[fib[i].iTail][b] = Zero

\* The memory header, which lies under the links of cluster 0, is written by format alone,
\* but for two cases: a create that takes the last free cluster and a delete that gives
\* back the first one relink a free list that has no first cluster (SFS_fcreate,
\* SFS_fdelete), and SFS_fwrite, which asks before it does, must be no third.
HeaderKept ==
  [][iPre'[0] \notin {iPre[0], Header} =>
       \/ ~mib'.fit
       \/ mib'.free_FIB_count < mib.free_FIB_count /\ mib'.free_cluster_count = 0
       \/ mib'.free_FIB_count > mib.free_FIB_count /\ mib.free_cluster_count = 0]_vars

\* The file system implements FileStore: every call answers as if files were sequences
\* of bytes, and it refuses a call only when FileStore does, so that no cluster leaks.
Bytewise(f) ==
  IF Named(f) = {} THEN None
  ELSE LET i   == CHOOSE i \in Named(f) : TRUE
           all == Chain(iNext, fib[i].iHead, fib[i].total_cluster)
       IN  [k \in 1..Size(i) |-> ByteAt(all, k - 1)]

Contents == [f \in Names |-> Bytewise(f)]

Position ==
  [f \in Names |->
     IF Named(f) \cap Opened = {} THEN None
     ELSE file[CHOOSE i \in Named(f) : TRUE].logic_position]

Store == INSTANCE FileStore WITH
  contents <- Contents,
  position <- Position,
  free <- mib.free_cluster_count,
  ready <- mib.fit

StoreRefined == Store!Spec
=============================================================================
