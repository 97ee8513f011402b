SPECIFICATION Spec
CONSTANTS
  old = old
  new = new
  Contents <- MCContents
PROPERTIES
  TargetResumes
