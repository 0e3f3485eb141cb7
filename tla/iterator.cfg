CONSTANTS
    small = small  big = big  over = over  zst = zst  plain = plain
    v1 = v1  v2 = v2  v3 = v3
    s1 = s1  s2 = s2  s3 = s3  b1 = b1  b2 = b2
    None = None
    Dangling = Dangling
    Types <- MCTypes
    SizeOf <- MCSizeOf
    AlignOf <- MCAlignOf
    NeedsDrop <- MCNeedsDrop
    Alignments <- MCAlignments
    Vals <- MCVals
    TypeOf <- AllFit
    Blocks <- MCBlocks
    Slots <- MCSlots
    StorageOf <- InPlaceStorage
    DynOf <- AllIterator
    Alloc = FALSE
    MaxAddr = 8
SPECIFICATION Spec
CHECK_DEADLOCK FALSE
INVARIANTS
    NoUB
    DroppedExactlyOnce
