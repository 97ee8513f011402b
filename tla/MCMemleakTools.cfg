SPECIFICATION Spec
CONSTANTS
  RingSize = 2
  MaxFrames = 2
  MaxIntervals = 2
INVARIANTS
  ChildAccountedFor
  TraceIsHonest
PROPERTIES
  KillsOnlyItsChild
  ChildIsLetGo
  EventsAreHandled
  EndsOnceQuiet
