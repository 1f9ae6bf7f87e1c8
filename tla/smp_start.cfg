SPECIFICATION FairSpec
CONSTANTS
  Cpus = {0, 1, 2, 3}
  Bsp = 0
  Madts <- MCMadts
  Capacity = 4
INVARIANTS TypeOK CpuidLags ReleaseLast
PROPERTY ApsArrive
CHECK_DEADLOCK FALSE
