\* Joint resets, a producer that holds its data.
CONSTANTS
    Data = {w0, w1, w2}
    Zero = w0
    HoldData = TRUE
    OneSided = FALSE
    MaxItems = 3
    MaxResets = 0
SPECIFICATION FairSpec
INVARIANTS
    TypeOK
    HandshakeInv
PROPERTIES
    ImplementsChannel
    ImplementsWordSource
    RcvValidHeld
    BundledDataStable
    FourPhaseOrder
    EventuallyDelivered
    SenderRecovers
