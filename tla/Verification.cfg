SPECIFICATION FairSpec
CONSTANTS
  Workers = {w1, w2}
  Members <- MCMembers
  Kind <- MCKind
  Size <- MCSize
  Tars <- MCTars
  Patches = {p1}
  Dirs = {d1, d2}
  Boxes = {b1, b2}
  None = none
  MaxFileBytes = 3
  MaxFiles = 2
  MaxTotalBytes = 3
  MaxLosses = 1
INVARIANT SnapshotExact
INVARIANT MemoryBounded
INVARIANT PassedIsProved
INVARIANT ContextsAccountedFor
PROPERTY VerdictReached
