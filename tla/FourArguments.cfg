CONSTANTS
    Interpreter = "bc"
    Arities = {4}
    BlockReceivers = {}
    Object = Object
    NoContext = NoContext
    MaxContexts = 4
    MaxDepth = 4
SPECIFICATION Spec
INVARIANT ReturnsAreCaught
CHECK_DEADLOCK FALSE
