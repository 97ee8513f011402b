SPECIFICATION Spec
CONSTANTS
  Files <- DebugFrameFiles
  EntryBytes = 24
  InitialCapacity = 2
  Blocks = {b1, b2, b3}
  NoBlock = NoBlock
CHECK_DEADLOCK FALSE
INVARIANTS
  LinksRightAfterGrowth
