SPECIFICATION Spec
CONSTANTS
    Group = 2
    Word = 3
    Dword = 9
    WireBits = 1
    BitposMod = 16
    Widths = {2, 3, 9}
    RawMax = 5
    MaxBytes = 12
    FedBytes <- AllBytes
INVARIANTS
    DecodeExact
    ReadersAgree
    EncodedReadBack
    FieldRoundTrip
CHECK_DEADLOCK FALSE
