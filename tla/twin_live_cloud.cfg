SPECIFICATION FairSpec
CONSTANTS
    Names = {n1}
    Values = {v1}
    Sessions = {s1}
    Devices = {d1}
    NoName = NoName
    NoSession = NoSession
    NoDevice = NoDevice
    Timeout = 1
    Shapes <- EventOnly
    MaxLocal = 1
    MaxCloud = 2
    MaxLate = 1
PROPERTY QueueDrains
