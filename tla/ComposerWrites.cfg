SPECIFICATION DeliveryFairSpec
CONSTANTS
    Calls = {c1, c2}
    OperationIds = {o1, o2, empty}
    EmptyId = empty
    PastePaced = TRUE
    SubmitPaced = TRUE
    MaxGeneration = 3
INVARIANTS PtyInOrder ClearIsEarned OneGeneration NotSentIsNothing
PROPERTIES SendsAnswered
CHECK_DEADLOCK FALSE
