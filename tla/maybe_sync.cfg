CONSTANTS
    cs = cs  ca = ca
    t1 = t1  t2 = t2
    NoTask = NoTask
    Calls <- MCCalls
    SyncImpls <- MCSyncImpls
    Tasks <- MCTasks
    MaxEvents = 2
    MaxMoves = 2
SPECIFICATION Spec
CHECK_DEADLOCK FALSE
INVARIANTS
    TypeOK
    OutputOwnedOnce
    NeverStranded
PROPERTIES
    ImplementsAsyncCall
