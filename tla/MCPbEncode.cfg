SPECIFICATION Spec
CONSTANTS
    Messages <- MCMessages
    Msg <- MCMsg
    Roots <- MCRoots
    Base = 4
    BufSizes = {0, 1, 2, 3, 4, 5, 6, 7, 8, 9, 10, 12, 14, 16, 18, 20, 24, 28, 32, 36, 40, 48}
    MaxDepth = 4
INVARIANTS
    InBuffer
    CountsWhatItPut
    LengthsTrue
    MeasuredSizeFits
PROPERTIES
    EncoderReturns
