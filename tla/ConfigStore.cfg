SPECIFICATION Spec
CONSTANTS
    Main = "main"
    Thread = {"can", "btn"}
    Modifier = {"can"}
    Field = {"addr", "sn", "relay"}
    InfoFields <- MCInfoFields
    MaxValue = 1
    MaxFaults = 2
INVARIANTS
    TypeOK
    AckedPersists
    GetReturnsHeld
    CachesCoherent
