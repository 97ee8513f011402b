SPECIFICATION Spec
CONSTANTS
  old = old
  new = new
  Contents <- MCContents
INVARIANTS
  OneSnapshot
  OwnDescriptors
  TraceEnds
PROPERTIES
  AttachReturns
