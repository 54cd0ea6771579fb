\* Bursts of any length that may be cut off at any bit.
CONSTANTS
    Shapes <- MCShapes
    Words <- MCWords
    Upto = 3
    MaxFlips = 3
    CrcWidth = 8
    Poly <- MCPoly
SPECIFICATION CrcSpec
INVARIANTS
    SerialType
    WordsComeBack
    DoneEveryUpto
    SerialInv
PROPERTIES
    CrcVerdict
