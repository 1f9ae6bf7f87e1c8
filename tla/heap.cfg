SPECIFICATION FairSpec
CONSTANTS
  Word = 65536
  KernelStart = 4096
  KernelEnd = 5000
  Maps <- MCMaps
  Sizes = {0, 40, 1000}
  Stale = {0, 40}
  Wild = {100, 4500, 5028}
  Contexts = {"main", "isr"}
  Handlers = {"isr"}
  Mallocers = {"main"}
  MaxBlocks = 3
  MaxResets = 1
INVARIANTS TypeOK FreshPointers OffTheKernel OverrunBound OneStray PayloadsDisjoint HeadersSafe
PROPERTY MallocReturns
CHECK_DEADLOCK FALSE
