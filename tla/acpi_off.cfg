CONSTANTS
    MaxPolls = 3
    Top = 4
    Ticks = 2
    Machines <- Machines_
SPECIFICATION Spec
INVARIANTS OffOnlyWhenPressed
CHECK_DEADLOCK FALSE
