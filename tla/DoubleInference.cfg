SPECIFICATION Spec
CONSTANTS
  w1 = w1
  w2 = w2
  Workers <- MCWorkers
  Claims = {1}
  Family <- MCFamily
  ModelFamilies = {"implementation"}
  Lease = 1
  MaxClock = 2
  MaxTicks = 2
SYMMETRY Symmetry
INVARIANTS SingleInference
