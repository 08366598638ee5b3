SPECIFICATION Spec
CONSTANTS
    Addr = {1, 2}
    Sn = {1, 2}
    HeaderSn = 2
    TypeByte = {0, 1, 4, 5, 6}
    InitTypes = {4}
    MaxFaults = 0
INVARIANT ModifyDeviceObeyed
