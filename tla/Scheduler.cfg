\* Four processes, a quantum of two, a tick counter that wraps out of phase
\* with the quantum.
CONSTANTS
  Quantum = 2
  TickModulus = 4
  MaxProcesses = 4
SPECIFICATION HSpec
INVARIANTS
  HTypeOK
  PidsDense
  FrontRunning
  PreemptedStopped
PROPERTIES
  NoOvertaking
  SliceIsQuantumPlusOne
  ImplementsFairRoundRobin
  NoStarvation
  SettlesToOneRunning
