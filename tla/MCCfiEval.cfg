SPECIFICATION Spec
CONSTANTS
  CiePrograms <- MCCiePrograms
  FdePrograms <- MCFdePrograms
  Slots = 3
  WordSize = 16384
  ReturnReg = 2
  SpReg = 1
  CodeAlign = 2
  DataAlign <- MCDataAlign
  PcBegin = 100
  Pcs = {101, 102}
  CalleeRegs <- MCCalleeRegs
  Memory <- MCMemory
CHECK_DEADLOCK FALSE
INVARIANTS
  
  FailureKeepsCursor
