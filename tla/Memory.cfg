\* A heap of eight pages that starts inside a table and spans three of them,
\* as the 1024 pages of the real one do in tables of 512.
CONSTANTS
  PageSize = 4
  Fanout = 4
  HEAP_START = 20
  HEAP_SIZE = 32
  Maps <- MCMaps
SPECIFICATION Spec
CHECK_DEADLOCK FALSE
INVARIANTS
  NoFrameTwice
PROPERTIES
  ComesUpIffEnough
  OwnedSpec
