\* All four modes, every phase of the two clocks; nothing is bounded.
CONSTANTS
    MinHalf <- MCMinHalf
SPECIFICATION Spec
INVARIANTS
    FrontendType
PROPERTIES
    EveryBitStrobedOnce
    EveryAnswerSampledOnce
    AnsweredInTime
