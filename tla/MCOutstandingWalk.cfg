SPECIFICATION WalkSpec
CONSTANTS
  Addresses <- MCAddresses
  Stacks <- MCStacks
  Sizes <- MCSizes
  Hashes <- MCHashes
  MapSize = 3
  MinAge = 1
  MaxTime = 1
  TimeRange = 8
  TopStacks = 1
  MaxChanges = 2
INVARIANTS
  OutstandingAreCounted
  CountedOnce
  TotalsAddUp
  ArrayIsNotOverrun
PROPERTIES
  WalkEnds
