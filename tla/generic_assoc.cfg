CONSTANT Programs <- GenericAssoc
SPECIFICATION Spec
CHECK_DEADLOCK FALSE
INVARIANT
    ImplComplete
