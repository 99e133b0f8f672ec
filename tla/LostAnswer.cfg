SPECIFICATION Spec
CONSTANTS
    Arrays = {a1}
    Values = {"zero", "one", "zero.0", "true", "false", "object", "nil"}
    KindOf <- KindOfModel
    nilObject = "nil"
    trueObject = "true"
    falseObject = "false"
    ZeroInteger = "zero"
    ZeroDouble = "zero.0"
    Indices = {1, 2}
    MaxSize = 3
    MaxFills = 1
    MixedFills = TRUE
    MixedArguments = FALSE
    Unallocated = Unallocated
INVARIANT AnswersAreKept
