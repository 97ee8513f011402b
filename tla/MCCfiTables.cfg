SPECIFICATION Spec
CONSTANTS
  Files <- MCFiles
  EntryBytes = 24
  InitialCapacity = 2
  Blocks = {b1, b2, b3}
  NoBlock = NoBlock
CHECK_DEADLOCK FALSE
INVARIANTS
  LinksRightWithoutGrowth
  BuildOwnsItsBlocks
  TablesAreWhole

  
