SPECIFICATION Spec
CONSTANTS
  Word = 65536
  KernelStart = 4096
  KernelEnd = 5000
  Maps <- OneMap
  Sizes = {0, 40}
  Stale = {0, 40}
  Wild = {100}
  Contexts = {"main", "isr"}
  Handlers = {"isr"}
  Mallocers = {"main", "isr"}
  MaxBlocks = 3
  MaxResets = 0
INVARIANTS SpaceUnallocated
CHECK_DEADLOCK FALSE
