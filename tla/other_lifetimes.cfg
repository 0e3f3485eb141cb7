CONSTANT Programs <- OtherLifetimes
SPECIFICATION Spec
CHECK_DEADLOCK FALSE
INVARIANT
    CapturesOutlive
