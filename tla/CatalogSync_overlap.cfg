\* A sync of the service and one of the command line overlap, fail and are killed while upstream moves.
CONSTANTS
  None = None
  ra = ra
  rb = rb
  rc = rc
  Syncer = {y1, y2}
  Tool = {y2}
  Registry <- MCRegistry
  Commit = {1, 2, 3}
  Upstream <- MCUpstream
  File <- MCFile
  Files <- MCFiles
  Submodule <- MCSubmodule
SPECIFICATION Spec
INVARIANT TypeOK
PROPERTIES
  FailureStaysLocal
  
  WholeStaysWhole
