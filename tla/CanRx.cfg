SPECIFICATION FairSpec
CONSTANTS
    MsgBoxSz = 2
    HwFifoSz = 3
    SemMax = 4
    MaxFrames = 6
INVARIANTS
    TypeOK
    NoLostWakeup
    DuplicatesBounded
    BoxesConserved
    IsrFindsBox
    ExactlyOnceUnlessDropped
    NoForeignFrameHandled
PROPERTIES
    FramesSettle
    ImplementsDelivery
CHECK_DEADLOCK FALSE
