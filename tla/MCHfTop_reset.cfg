\* A reset that may fall during a transfer.
CONSTANTS
    AddrCount = 4
    Words <- MCWords
    Settled = TRUE
    ResetAnytime = TRUE
SPECIFICATION Spec
INVARIANT
    NoUnsolicitedTransfer
