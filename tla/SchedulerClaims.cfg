SPECIFICATION Spec
CONSTANTS
  w1 = w1
  w2 = w2
  Workers <- MCWorkers
  Claims = {1, 2}
  Family <- MCFamily
  ModelFamilies = {"implementation"}
  Lease = 1
  MaxClock = 3
  MaxTicks = 2
SYMMETRY Symmetry
INVARIANTS Consistent TickExclusion SingleUntilOverrun
PROPERTIES ImplementsStageEffect TakeoverAfterExpiry
