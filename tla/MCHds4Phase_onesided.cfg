\* Each reset input may fall on its own.
CONSTANTS
    Data = {w0, w1}
    Zero = w0
    HoldData = TRUE
    OneSided = TRUE
    MaxItems = 4
    MaxResets = 2
SPECIFICATION FairSpec
INVARIANT
    ResetSkew
PROPERTY
    BothRecover
