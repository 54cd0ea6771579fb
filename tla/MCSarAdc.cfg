CONSTANTS
    N = 4
    IndexSize = 4
    Weight <- MCWeight
    Inputs <- MCInputs
SPECIFICATION FairSpec
INVARIANTS
    ConvertInv
    ResultWithinInput
    OneDonePerStart
PROPERTIES
    ResultHeld
    ConversionEnds
