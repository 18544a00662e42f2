CONSTANTS
  BLOCK_SIZE = 2
  MaxMembers = 3
  LastYear = 2106
  Archives <- MCArchives
  Paths <- MCPaths
SPECIFICATION Spec
CHECK_DEADLOCK FALSE
INVARIANTS
  LoadsAll
  ListingRight
  LookupRight
PROPERTIES
  LoadsIfLoggable
