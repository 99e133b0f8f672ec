SPECIFICATION Spec
CONSTANTS
    Arrays = {a1, a2}
    Values = {"zero", "zero.0", "false", "object", "nil"}
    KindOf <- KindOfModel
    nilObject = "nil"
    trueObject = "true"
    falseObject = "false"
    ZeroInteger = "zero"
    ZeroDouble = "zero.0"
    Indices = {0, 1}
    MaxSize = 2
    MaxFills = 1
    MixedFills = FALSE
    MixedArguments = FALSE
    Unallocated = Unallocated
INVARIANTS TypeOK ReadsSucceed PartialKnowsItsKind
PROPERTY ContentsSpec
SYMMETRY Symmetry
