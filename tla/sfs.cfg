SPECIFICATION Spec
CONSTANTS
  Names = {f, g}
  Texts <- MCTexts
  Zero = zero
  NoName = noname
  None = none
  NumFib = 2
  NumCluster = 3
  ClusterData = 2
  Lengths = {2}
  Positions = {0, 3, 9}
  f = f
  g = g
  x = x
  y = y
  zero = zero
  noname = noname
  none = none
INVARIANTS TypeOK ClustersKept Erased
PROPERTIES HeaderKept StoreRefined
