CONSTANT Programs <- SizedSelf
SPECIFICATION Spec
CHECK_DEADLOCK FALSE
INVARIANT
    VtableTyped
