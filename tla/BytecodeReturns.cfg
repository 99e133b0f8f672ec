CONSTANTS
    Interpreter = "bc"
    Arities = {5}
    BlockReceivers = {}
    Object = Object
    NoContext = NoContext
    MaxContexts = 5
    MaxDepth = 4
SPECIFICATION Spec
INVARIANTS
    TypeOK
    MarkerTellsTheTruth
    ReturnsAreCaught
    AssertionsHold
PROPERTY ReturnSemanticsSpec
CHECK_DEADLOCK FALSE
