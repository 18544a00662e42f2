\* The real FIFO, and bytes enough to fill it, wedge the input and overrun.
CONSTANTS
  Depth = 16
  Trigger = 14
  MaxBytes = 18
  LineBytes = {"line"}
  Undisturbed = TRUE
SPECIFICATION Spec
CHECK_DEADLOCK FALSE
INVARIANTS
  Configured
  ReadNeverSpins
PROPERTIES
  ComesUp
