SPECIFICATION Spec
CONSTANTS
    Main = "main"
    Thread = {"can", "tshell"}
    Modifier = {"can", "tshell"}
    Field = {"addr", "sn", "relay"}
    InfoFields <- MCInfoFields
    MaxValue = 1
    MaxFaults = 0
INVARIANT AckedPersists
