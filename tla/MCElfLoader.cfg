SPECIFICATION Spec
CONSTANTS
  Files <- MCFiles
  EntrySize = 2
  None = None
CHECK_DEADLOCK FALSE
INVARIANTS
  SlicesAreSections
  
  

  
