SPECIFICATION FairSpec
CONSTANTS
    Slot = {s1, s2, s3}
    HoldMax = 3
    MaxPresses = 6
INVARIANTS
    TypeOK
    NoPressLost
    HeldForGood
PROPERTY PressAnswered
