CONSTANTS
  U16 = 256
  U64 = 1024
  Files <- MCFiles
SPECIFICATION Spec
CHECK_DEADLOCK FALSE
INVARIANTS
  TablesRight
PROPERTIES
  DecodedIffFits
