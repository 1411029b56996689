CONSTANTS
    Slices = {s1, s2, s3, s4}
    NoSlice = NoSlice
    Workers = {w1, w2}
    NoMsg = NoMsg
    Unit <- MCUnit
    MaxValue = 9
    MaxInt64 <- MCMaxInt64
    ClassSizes <- MCClassSizes
    PoolingThreshold = 2
    CompressThreshold = 2
    ByteMod = 3
    MaxLength = 6
    Keys <- MCKeys
    Requests <- MCRequests
    Replies <- MCReplies
    ChunkSizes = {0, 3}
    ReadSizes = {2}
    ReadAllSize = 3
    MaxBufs = 3
SPECIFICATION Spec
SYMMETRY Symmetry
INVARIANTS HoldersCounted GetFits DecodedIntact WrittenIntact TimeoutKept RemainExact
CHECK_DEADLOCK FALSE
