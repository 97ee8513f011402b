SPECIFICATION Spec
CONSTANTS
  Capacity = 3
  P1 = P1
  P2 = P2
  P3 = P3
  P4 = P4
  Paths <- MCPaths
  Stored <- LongStored
  Clients = {c1, c2, c3, c4}
  Blocks = {b1, b2, b3, b4}
  NoPath = NoPath
  NoBlock = NoBlock
  MaxClock = 4
SYMMETRY MCSymmetry
INVARIANTS
  RefcountsMatchHolders
  HolderHasItsModule
  HeapIsOwned
  FullMeansPinned
PROPERTIES
  HeldModuleStays
  ImplementsPromise
