\* One fault of any kind, at any instruction of the boot or of a handler.
CONSTANTS
  Quantum = 1
  TickModulus = 2
  MaxProcesses = 2
  Faults = {"panic", "oom", "nmi", "machine_check", "trap"}
SPECIFICATION KSpec
CHECK_DEADLOCK FALSE
INVARIANTS
  SpinsOnlyIfCornered
  HaltsOnlyIfClean
PROPERTIES
  PanicIsReported
  TrapEndsSpinning
