SPECIFICATION Spec
CONSTANTS
    Func = {1, 2, 3, 4, 7, 33, 35, 37, 42, 49, 50, 51, 53, 55}
    Payload <- MCPayload
    Header <- MCHeader
    Noisy <- MCNoisy
    Junk = {0, 254, 255}
    MaxFlips = 3
INVARIANTS
    OwnFramesAccepted
    ShortRejected
    ChecksumIsRemainder
    CorruptedRejected
