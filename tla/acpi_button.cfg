CONSTANTS
    MaxPolls = 3
    Top = 4
    Ticks = 2
    Machines <- Machines_
SPECIFICATION FairSpec
INVARIANTS TypeOK
PROPERTIES PressSwitchesOff SetupEnds
\* The machine may be off.
CHECK_DEADLOCK FALSE
