\* Nothing fails; does a sleeping worker acknowledge a pause at once?
SPECIFICATION Spec
CONSTANTS
  Workers <- MCWorkers
  Pipes <- MCPipes
  PipeCapacity = 1
  Samples = 3
  Burst = 2
  MayThrow = FALSE
INVARIANTS
  AcksWhileSleeping
