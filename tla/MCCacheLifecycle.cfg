SPECIFICATION FairSpec
CONSTANTS
  Services = {p, q}
  Maintainers = {m, n}
  Inodes = {1, 2, 3, 4}
  MaxStarts = 3
INVARIANTS
  InUseIsKept
  OneOwner
  WholeDatabase
PROPERTIES
  PrunedForAReason
  OpenEnds
