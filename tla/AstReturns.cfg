CONSTANTS
    Interpreter = "ast"
    Arities = {4}
    BlockReceivers = {"with context"}
    Object = Object
    NoContext = NoContext
    MaxContexts = 5
    MaxDepth = 3
SPECIFICATION Spec
INVARIANTS
    MarkerTellsTheTruth
    ReturnsAreCaught
    AssertionsHold
PROPERTY ReturnSemanticsSpec
CHECK_DEADLOCK FALSE
