CONSTANTS
    t1 = t1  t2 = t2
    s1 = s1  s2 = s2  s3 = s3
    rc = rc  cell = cell  guard = guard  int = int
    None = None
    Threads <- MCThreads
    Slots <- MCSlots
    DynOf <- Bounded
    Vals <- MCVals
    AutoTraits <- MCAutoTraits
    HomeOf <- MCHomeOf
SPECIFICATION Spec
CHECK_DEADLOCK FALSE
INVARIANTS
    ThreadConfined
    NoSharedUse
