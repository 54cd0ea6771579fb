CONSTANTS
    MinGap = 1
    MaxResets = 2
SPECIFICATION FairSpec
PROPERTIES
    ImplementsPulseChannel
    EveryPulseSeen
    OneCyclePulses
