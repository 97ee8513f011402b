SPECIFICATION Spec
CONSTANTS
  Threads = {t1, t2}
  Addresses = {a1, a2, a3}
  Stacks = {s1}
  Sizes = {1, 3}
  TracedSizes = {3}
  Sampling = FALSE
  MaxNested = 1
  Slots = {k1, k2}
  MaxCombined = 1
  MaxThreads = 2
  TotalLimit = 4
  CountLimit = 4
  Null = Null
INVARIANTS
  TypeOK
  RecordsAreTrue
  
  StatisticsMatch
SYMMETRY MCSymmetry
CONSTRAINT MCBound
