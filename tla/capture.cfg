CONSTANTS
    Capacity = 1
    MaxEvents = 2
    MaxCalls = 2
SPECIFICATION CFairSpec
CHECK_DEADLOCK FALSE
INVARIANTS Accounted SummaryBacked CompleteIsFinal DetailIsObserved
PROPERTY FinalizeReturns
