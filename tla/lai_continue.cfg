CONSTANTS
    IntBytes = 2
    Programs <- ContinuingPrograms
    Calls <- ContinuingCalls
    MaxCalls <- ContinuingMaxCalls
    Capacity <- Capacity_
SPECIFICATION Spec
PROPERTIES Answered
