\* Any host; the properties about framing ask for a well-paced one.
CONSTANTS
    AddrCount = 4
    Words <- MCWords
    Settled = TRUE
    ResetAnytime = FALSE
SPECIFICATION FairSpec
INVARIANTS
    TypeOK
    MemoryMatches
    CommandFraming
    BurstInv
PROPERTIES
    ReadsInOrder
    ApbTransfer
    ReadNotLost
    FrameEnds
    NoHang
