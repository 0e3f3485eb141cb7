CONSTANT Programs <- MCPrograms
SPECIFICATION Spec
CHECK_DEADLOCK FALSE
INVARIANTS
    CapturesOutlive
    UncapturedFree
    DynCompatible
    ImplComplete
    VtableTyped
    RunsClientBody
PROPERTY
    ExpansionEnds
