SPECIFICATION Spec
CONSTANTS
  Files <- EhFrameFiles
  EntryBytes = 24
  InitialCapacity = 2
  Blocks = {b1, b2, b3}
  NoBlock = NoBlock
CHECK_DEADLOCK FALSE
INVARIANTS
  EhFrameIsIndexed
