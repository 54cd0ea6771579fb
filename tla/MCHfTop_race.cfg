\* Blocks that may run before their inputs have settled.
CONSTANTS
    AddrCount = 4
    Words <- MCWords
    Settled = FALSE
    ResetAnytime = FALSE
SPECIFICATION Spec
PROPERTY
    ReadsInOrder
