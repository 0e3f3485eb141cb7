CONSTANT Programs <- NotFiltered
SPECIFICATION Spec
CHECK_DEADLOCK FALSE
INVARIANT
    DynCompatible
