SPECIFICATION Spec
CONSTANTS
  NumLimit = 100
  conformedDepth = 3
  Created <- create
  Upgraded <- upgrade
  Filled <- fill
  Computed <- compute
  IsOf <- Inhabits
  Versions <- MCVersions
  Documents <- MCDocuments
  Shapes <- MCShapes
  Pool <- MCPool
  MaxMoves = 3
CHECK_DEADLOCK FALSE
INVARIANT NeverBroke
INVARIANT Fits
