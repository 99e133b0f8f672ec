SPECIFICATION Spec
CONSTANTS
    Arrays = {a1}
    Values = {"zero", "zero.0", "true", "object", "nil"}
    KindOf <- KindOfModel
    nilObject = "nil"
    trueObject = "true"
    falseObject = "false"
    ZeroInteger = "zero"
    ZeroDouble = "zero.0"
    Indices = {0, 1}
    MaxSize = 3
    MaxFills = 2
    MixedFills = TRUE
    MixedArguments = FALSE
    Unallocated = Unallocated
PROPERTY ContentsSpec
