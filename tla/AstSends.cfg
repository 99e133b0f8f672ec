CONSTANTS
    Top = Top  Mid = Mid  Leaf = Leaf
    foo = foo  bar = bar  dnu = dnu
    top1 = top1  top2 = top2  mid1 = mid1  mid2 = mid2  leaf = leaf
    sendBar = sendBar  superFoo = superFoo  superBar = superBar
    Classes = {Top, Mid, Leaf}
    Chain <- MCChain
    Selectors = {foo, bar, dnu}
    Defines <- MCDefines
    DoesNotUnderstand = dnu
    Objects = {top1, top2, mid1, mid2, leaf}
    ClassOf <- MCClassOf
    LayoutsOf <- MCLayoutsOf
    FailingWrites = TRUE
    Sites = {sendBar, superFoo, superBar}
    SelectorOf <- MCSelectorOf
    SuperSites = {superFoo, superBar}
    HolderOf <- MCHolderOf
    None = None
    Failed = Failed
    InlineCacheSize = 2
SPECIFICATION Spec
INVARIANTS
    TypeOK
    ChainsWellFormed
PROPERTIES
    MegamorphicOnlyByClasses
    DispatchSafety
