CONSTANTS
    Objects = {o1, o2}
    NumFields = 2
    DirectPrims = 1
    DirectPtrs = 1
    MaskBits = 2
    Bits = {0, 1, 2}
    Values <- MCValues
    Zero = 0
    Scrub = 2
SYMMETRY Symmetry
SPECIFICATION Spec
INVARIANTS
    TypeOK
    OnlyClassLayoutIsLatest
    LayoutsGeneralize
    TransitionsByConstruction
PROPERTIES
    AbortOnlyOnStaleObject
    FieldStoreSpec
CHECK_DEADLOCK FALSE
