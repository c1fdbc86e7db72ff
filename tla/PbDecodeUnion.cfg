SPECIFICATION Spec
CONSTANTS
    Messages <- MCMessages
    Msg <- MCMsg
    SizeMax = 3
    Roots <- ChoiceRoots
    StreamSizes <- ChoiceSizes
    VarLens = {1, 2}
    FixedLens = {2}
    Lengths = {0, 1, 2, 4}
    MaxRequired = 2
    MaxDepth = 4
INVARIANTS
    NothingLost
