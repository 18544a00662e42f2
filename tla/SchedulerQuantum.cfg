CONSTANTS
  Quantum = 3
  TickModulus = 8
  MaxProcesses = 2
SPECIFICATION HSpec
PROPERTY SliceIsQuantum
