SPECIFICATION FairSpec
CONSTANTS
    Interval = 15
    ShortTick = 75
    LongTick = 150
    HoldTick = 225
    CntMod = 256
    MaxClicks = 5
INVARIANTS
    TypeOK
    EventsInOrder
    PressesAccounted
PROPERTY GestureSettles
