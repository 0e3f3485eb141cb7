CONSTANTS
    small = small  big = big
    f1 = f1  f2 = f2  f3 = f3  s1 = s1  s2 = s2  b1 = b1
    cs = cs  ca = ca  cr = cr  t1 = t1
    None = None
    Dangling = Dangling
    NoTask = NoTask
    Types <- MCTypes
    SizeOf <- MCSizeOf
    AlignOf <- MCAlignOf
    NeedsDrop <- MCNeedsDrop
    Alignments <- MCAlignments
    Vals <- MCVals
    TypeOf <- MCTypeOf
    Blocks <- MCBlocks
    Slots <- MCSlots
    StorageOf <- MCStorageOf
    DynOf <- MCDynOf
    Alloc = TRUE
    MaxAddr = 4
    Calls <- MCCalls
    SyncImpls <- MCSyncImpls
    Tasks <- MCTasks
    MaxEvents = 1
    MaxMoves = 0
    FutureOf <- MCFutureOf
SPECIFICATION MSpec
CHECK_DEADLOCK FALSE
INVARIANTS
    FutureInPlace
    DroppedExactlyOnce
    LeaksOnlyOnPanic
PROPERTIES
    AnsweredOnce
