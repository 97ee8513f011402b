SPECIFICATION Spec
CONSTANTS
  old = old
  new = new
  whole = whole
  stripped = stripped
  capture = capture
  other = other
  Capacity = 1
  Paths <- MCPaths
  Indexed <- MCIndexed
  Self = capture
  Others <- MCOthers
  NoPath = NoPath
  MaxFrames = 3
  Contents <- MCContents
INVARIANTS
  NothingHeld
  FailureSurfaces
  
  
PROPERTIES
  ImplementsContract
