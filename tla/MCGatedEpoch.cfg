\* Two workers, every choice of gated ones, failures anywhere.
SPECIFICATION FairSpec
CONSTANTS
  Workers <- MCWorkers
  Pipes <- MCPipes
  PipeCapacity = 1
  Samples = 3
  Burst = 2
  MayThrow = TRUE
INVARIANTS
  TypeOK
  CriticalAlone
  GateLeftOpen
  KillsExplained
PROPERTIES
  EpochEnds
