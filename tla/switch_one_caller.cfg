SPECIFICATION Spec
CONSTANTS
  N = 4
  Callers = {2}
  Framers = {2}
  MaxWords = 7
INVARIANTS TypeOK ReturnsToCaller
