SPECIFICATION Spec
CONSTANTS
    Names = {n1, n2}
    Values = {v1}
    Sessions = {s1}
    Devices = {d1}
    NoName = NoName
    NoSession = NoSession
    NoDevice = NoDevice
    Timeout = 1
    Shapes <- AllShapes
    MaxLocal = 2
    MaxCloud = 0
    MaxLate = 1
PROPERTY AnsweredWasSelected
