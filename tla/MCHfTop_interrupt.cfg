\* A host that may end a frame at any time.
CONSTANTS
    AddrCount = 4
    Words <- MCWords
    Settled = TRUE
    ResetAnytime = FALSE
SPECIFICATION FairSpec
PROPERTY
    InterruptionProperty
