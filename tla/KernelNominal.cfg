\* No fault. Two processes are enough for a swap, and the tick counter wraps.
CONSTANTS
  Quantum = 1
  TickModulus = 3
  MaxProcesses = 2
  Faults = {}
SPECIFICATION KSpec
INVARIANTS
  LockOrder
  MaskedWhileBusy
  GatesFit
PROPERTIES
  ImplementsScheduler
  KeepsTicking
