CONSTANTS
    IntBytes = 2
    Programs <- Programs_
    Calls <- Calls_
    MaxCalls <- MaxCalls_
    Capacity <- Capacity_
SPECIFICATION Spec
INVARIANTS TypeOK OperandsFit StacksAgree ListsEveryName
PROPERTIES EvaluatesItsCode MethodNodesGone
